---------------------------- MODULE Spec2Model ----------------------------
(***************************************************************************)
(* A model of the sandboxed execution host of zksubstrate:                 *)
(*   - the Host Execution State and its sandbox host calls                 *)
(*     (client/executor/wasmtime/src/host.rs),                             *)
(*   - the Bounds Checker used by the sandbox memory copies,               *)
(*   - the Module Cache behind PrefabWasmModule                            *)
(*     (frame/contracts/src/wasm/mod.rs).                                  *)
(* Handles are 0-based as in the code; sequences are 1-based, so handle h  *)
(* lives at index h + 1.                                                   *)
(***************************************************************************)
EXTENDS Integers, Sequences, FiniteSets, TLC

(***************************************************************************)
(* Bounds of the model.                                                    *)
(***************************************************************************)
\* width of usize in bits (scaled down so that offset + len can overflow)
UsizeBits == 2
\* number of bytes of the supervisor (outer VM) linear memory
SupSize == 2
\* most Guest Memories the store is driven to hold
MaxMemories == 1
\* most Sandbox Instances the store is driven to hold
MaxInstances == 2
\* deepest call stack of reentrant frames
MaxDepth == 2
\* largest page count passed to memory_new
MaxPages == 1
\* bytes in one page of Guest Memory (scaled down from 64 KiB)
PageSize == 2
\* largest WordSize / Pointer argument passed to a host call
MaxWord == 3
\* most bytes the supervisor memory grows by
MaxGrow == 1

UsizeLimit == 2 ^ UsizeBits
Usize == 0 .. (UsizeLimit - 1)
Words == 0 .. MaxWord
Byte == {0, 1}

(***************************************************************************)
(* Status codes of sp_core::sandbox, as used by host.rs.                   *)
(***************************************************************************)
ERR_OK == 0
ERR_MODULE == -1
ERR_OUT_OF_BOUNDS == -2
ERR_EXECUTION == -3

VARIABLES
    supMem,      \* instance: bytes of the supervisor linear memory
    memories,    \* sandbox_store: Guest Memory slots, "none" once torn down
    instances,   \* sandbox_store: Sandbox Instance slots, emptied once torn down
    table,       \* instance.table(): the outer VM's function table, or "notable"
    allocated,   \* allocator: pointers handed out and not yet freed
    storeFlag,   \* RefCell borrow flag of sandbox_store: 0 free, n > 0 readers, -1 writer
    allocFlag,   \* RefCell borrow flag of allocator
    stack,       \* frames of host calls that are waiting for guest code to return
    fault,       \* a panic has aborted the call
    lastOp,      \* the last host call that returned, with its result
    rPc,         \* Bounds Checker: "idle", "input" (inputs chosen) or "done"
    rOffset, rLen, rMax, rOut,   \* Bounds Checker: the inputs and the answer
    codeStorage, \* Module Cache: content hash -> stored module
    pristine,    \* Module Cache: content hash -> original code (side table)
    cacheOp,     \* Module Cache: the last operation and what it returned
    held,        \* Module Cache: the PrefabWasmModule the caller holds in memory
    nIncs,       \* Module Cache: per hash, how often the reference count was incremented
    nDecs,       \* Module Cache: per hash, how often the reference count was decremented
    ext,         \* Execution Driver: the environment (MockExt) and what it recorded
    run,         \* Execution Driver: the contract being executed and its result
    wire,        \* wire format: a host-call argument vector, encoded and decoded
    Now,         \* Timestamp: current time for the current block
    DidUpdate,   \* Timestamp: did the timestamp get updated in this block?
    timeOp,      \* Timestamp: the last call or hook and how it ended
    blockPhase,  \* Timestamp: "between" blocks or "in_block"
    blockNumber, \* Timestamp: the number of the current block
    setsInBlock, \* Timestamp: how often set succeeded in the current block
    authority_id_to_addresses, \* AddrCache: authority -> sorted addresses (<< >>: no entry)
    peer_id_to_authority_id,   \* AddrCache: peer -> authority (0: no entry)
    addrOp,                    \* AddrCache: the last call and how it ended
    txBase,      \* storage: the committed values, key -> value
    txLayers,    \* storage: the changes of the open transactions, innermost last
    txFrames,    \* storage: per with_transaction in progress, the view it started from
    txOp,        \* storage: the last call and how it ended
    TRANSACTION_LEVEL,  \* debug_helper: the thread-local count of open with_transaction
    occ,         \* occupied_storage: the module's fields and the answer
    tally,       \* democracy: the Tally of a referendum
    tallyOp      \* democracy: the last call on the tally and what it returned

hostVars == <<supMem, memories, instances, table, allocated, storeFlag, allocFlag,
              stack, fault, lastOp>>
rangeVars == <<rPc, rOffset, rLen, rMax, rOut>>
cacheVars == <<codeStorage, pristine, cacheOp, held, nIncs, nDecs>>
execVars == <<ext, run>>
wireVars == <<wire>>
\* the components beside the sandbox host and the contracts module
timeVars == <<Now, DidUpdate, timeOp, blockPhase, blockNumber, setsInBlock>>
addrVars == <<authority_id_to_addresses, peer_id_to_authority_id, addrOp>>
txVars == <<txBase, txLayers, txFrames, txOp, TRANSACTION_LEVEL>>
numVars == <<occ, tally, tallyOp>>
otherVars == <<wireVars, timeVars, addrVars, txVars, numVars>>
vars == <<hostVars, rangeVars, cacheVars, execVars, otherVars>>

(***************************************************************************)
(* Bounds Checker.                                                         *)
(***************************************************************************)
NoRange == [some |-> FALSE, start |-> 0, end |-> 0]

\* usize::checked_add: None (here -1) when the sum does not fit in usize
checked_add(a, b) == IF a + b >= UsizeLimit THEN -1 ELSE a + b

\* a plausible slip: wrapping addition
checked_range_wrapping(offset, len, max) ==
    LET end == (offset + len) % UsizeLimit
    IN  IF end <= max THEN [some |-> TRUE, start |-> offset, end |-> end] ELSE NoRange

\* util::checked_range(offset, len, max) -> Option<Range<usize>>
checked_range(offset, len, max) ==
    LET end == checked_add(offset, len)
    IN  IF end = -1 THEN NoRange
        ELSE IF end <= max THEN [some |-> TRUE, start |-> offset, end |-> end]
        ELSE NoRange

(***************************************************************************)
(* RefCell borrowing of the members of HostState.                          *)
(***************************************************************************)
\* RefCell::borrow succeeds unless a writer holds the cell
BorrowOk(flag) == flag >= 0
\* RefCell::borrow_mut succeeds only on a free cell
BorrowMutOk(flag) == flag = 0

(***************************************************************************)
(* Results of host calls.                                                  *)
(***************************************************************************)
Done(op, id, off, ptr, len, ok, val, err) ==
    [op |-> op, id |-> id, off |-> off, ptr |-> ptr, len |-> len,
     ok |-> ok, val |-> val, err |-> err]
\* Ok(val) of a call that takes a handle (or nothing)
Ok(op, id, val) == Done(op, id, 0, 0, 0, TRUE, val, "")
\* Ok(val) of a memory copy, with its arguments
CopyOk(op, id, off, ptr, len, val) == Done(op, id, off, ptr, len, TRUE, val, "")
Err(op, id, msg) == Done(op, id, 0, 0, 0, FALSE, 0, msg)

\* everything outside the Host Execution State
notHost == <<rangeVars, cacheVars, execVars, otherVars>>

\* the call stack is unwound by a panic: nothing else changes
Panic ==
    /\ fault' = TRUE
    /\ UNCHANGED <<supMem, memories, instances, table, allocated, storeFlag,
                   allocFlag, stack, lastOp>>

\* a host call returns `res` and changes nothing else
Returns(res) ==
    /\ lastOp' = res
    /\ UNCHANGED <<supMem, memories, instances, table, allocated, storeFlag,
                   allocFlag, stack, fault>>

Top == stack[Len(stack)]

\* supervisor (outer guest) code is running and may issue a host call
SupervisorRuns ==
    /\ ~fault
    /\ IF stack = << >> THEN TRUE ELSE Top.kind = "thunk"

\* code of a nested guest is running (inside instantiate or inside invoke)
GuestRuns ==
    /\ ~fault
    /\ IF stack = << >> THEN FALSE ELSE Top.kind \in {"invoke", "instantiate"}

(***************************************************************************)
(* sandbox::Store: slots of memories and instances.                        *)
(***************************************************************************)
NoneSlot == [live |-> FALSE, bytes |-> << >>]
SomeMemory(bytes) == [live |-> TRUE, bytes |-> bytes]
SomeInstance == [live |-> TRUE, bytes |-> << >>]

\* Store::memory(memory_id): "" when the handle names a live memory
MemoryLookupErr(id) ==
    IF id >= Len(memories) THEN "Trying to access a non-existent sandboxed memory"
    ELSE IF ~memories[id + 1].live THEN "Trying to access a torndown sandboxed memory"
    ELSE ""

\* Store::instance(instance_idx): "" when the handle names a live instance
InstanceLookupErr(id) ==
    IF id >= Len(instances) THEN "Trying to access a non-existent instance"
    ELSE IF ~instances[id + 1].live THEN "Trying to access a torndown instance"
    ELSE ""

\* a plausible slip: the new instance takes the place of the newest slot
register_overwriting(insts) ==
    IF insts = << >> THEN [idx |-> 0, insts |-> <<SomeInstance>>]
    ELSE [idx |-> Len(insts) - 1, insts |-> [insts EXCEPT ![Len(insts)] = SomeInstance]]

\* UnregisteredInstance::register: the next sequential handle
register(insts) == [idx |-> Len(insts), insts |-> Append(insts, SomeInstance)]

\* Store::instance_teardown on a live handle: the slot stays, emptied
store_instance_teardown(insts, id) == [insts EXCEPT ![id + 1] = NoneSlot]

\* bytes [start, end) of a buffer
Slice(buf, start, end) == SubSeq(buf, start + 1, end)

\* buf with data written at start
Overwrite(buf, start, data) ==
    [i \in 1 .. Len(buf) |->
        IF i > start /\ i <= start + Len(data) THEN data[i - start] ELSE buf[i]]

\* InstanceWrapper::write_memory_from / read_memory_into: fails outside the memory
InstanceRangeOk(ptr, len) == ptr + len <= Len(supMem)

\* a plausible slip: the size the supervisor memory had when the call began
memory_size_at_start(mem) == SupSize

\* self.instance.memory_size(): the size the supervisor memory has now
memory_size(mem) == Len(mem)

(***************************************************************************)
(* <HostContext as Sandbox>::memory_get                                    *)
(***************************************************************************)
\* a plausible slip: an out-of-bounds guest range is reported as success
memory_get_out_of_bounds_ok == ERR_OK

\* what memory_get returns when a range check fails
memory_get_out_of_bounds == ERR_OUT_OF_BOUNDS

\* a plausible slip: the copy starts one byte late in the Guest Memory
memory_get_copy_shifted(mem, src_range) ==
    [i \in 1 .. (src_range.end - src_range.start) |->
        IF src_range.start + i + 1 <= Len(mem) THEN mem[src_range.start + i + 1] ELSE 0]

\* the bytes memory_get passes to write_memory_from: &sandboxed_memory[src_range]
memory_get_copy(mem, src_range) == Slice(mem, src_range.start, src_range.end)

memory_get(memory_id, offset, buf_ptr, buf_len) ==
    /\ SupervisorRuns
    /\ IF ~BorrowOk(storeFlag) THEN Panic
       ELSE IF MemoryLookupErr(memory_id) # ""
       THEN Returns(Err("memory_get", memory_id, MemoryLookupErr(memory_id)))
       ELSE LET mem == memories[memory_id + 1].bytes
                src_range == checked_range(offset, buf_len, Len(mem))
                dst_range == checked_range(buf_ptr, buf_len, memory_size(supMem))
            IN  IF ~src_range.some \/ ~dst_range.some
                THEN Returns(CopyOk("memory_get", memory_id, offset, buf_ptr, buf_len,
                                    memory_get_out_of_bounds))
                ELSE IF ~InstanceRangeOk(dst_range.start, buf_len)
                THEN Panic
                ELSE /\ supMem' = Overwrite(supMem, dst_range.start,
                                            memory_get_copy(mem, src_range))
                     /\ lastOp' = CopyOk("memory_get", memory_id, offset, buf_ptr,
                                         buf_len, ERR_OK)
                     /\ UNCHANGED <<memories, instances, table, allocated, storeFlag,
                                    allocFlag, stack, fault>>
    /\ UNCHANGED notHost

(***************************************************************************)
(* <HostContext as Sandbox>::memory_set                                    *)
(***************************************************************************)
\* a plausible slip: the bytes land in every Guest Memory that has the range
memory_set_write_everywhere(mems, memory_id, start, data) ==
    [i \in 1 .. Len(mems) |->
        IF mems[i].live /\ start + Len(data) <= Len(mems[i].bytes)
        THEN [mems[i] EXCEPT !.bytes = Overwrite(@, start, data)]
        ELSE mems[i]]

\* read_memory_into(.., &mut sandboxed_memory[dst_range]): the store afterwards
memory_set_write(mems, memory_id, start, data) ==
    [mems EXCEPT ![memory_id + 1].bytes = Overwrite(@, start, data)]

memory_set(memory_id, offset, val_ptr, val_len) ==
    /\ SupervisorRuns
    /\ IF ~BorrowOk(storeFlag) THEN Panic
       ELSE IF MemoryLookupErr(memory_id) # ""
       THEN Returns(Err("memory_set", memory_id, MemoryLookupErr(memory_id)))
       ELSE LET mem == memories[memory_id + 1].bytes
                src_range == checked_range(val_ptr, val_len, memory_size(supMem))
                dst_range == checked_range(offset, val_len, Len(mem))
            IN  IF ~src_range.some \/ ~dst_range.some
                THEN Returns(CopyOk("memory_set", memory_id, offset, val_ptr, val_len,
                                    ERR_OUT_OF_BOUNDS))
                ELSE IF ~InstanceRangeOk(src_range.start, val_len)
                THEN Panic
                ELSE /\ memories' = memory_set_write(memories, memory_id, dst_range.start,
                                        Slice(supMem, src_range.start, src_range.end))
                     /\ lastOp' = CopyOk("memory_set", memory_id, offset, val_ptr,
                                         val_len, ERR_OK)
                     /\ UNCHANGED <<supMem, instances, table, allocated, storeFlag,
                                    allocFlag, stack, fault>>
    /\ UNCHANGED notHost

(***************************************************************************)
(* <HostContext as Sandbox>::memory_teardown and memory_new                *)
(***************************************************************************)
\* a plausible slip: a second teardown of a handle is a silent no-op
memory_teardown_twice_ok(memory_id) ==
    /\ SupervisorRuns
    /\ IF ~BorrowMutOk(storeFlag) THEN Panic
       ELSE IF memory_id >= Len(memories)
       THEN Returns(Err("memory_teardown", memory_id,
                        "Trying to teardown a non-existent sandboxed memory"))
       ELSE /\ memories' = [memories EXCEPT ![memory_id + 1] = NoneSlot]
            /\ lastOp' = Ok("memory_teardown", memory_id, 0)
            /\ UNCHANGED <<supMem, instances, table, allocated, storeFlag, allocFlag,
                           stack, fault>>
    /\ UNCHANGED notHost

memory_teardown(memory_id) ==
    /\ SupervisorRuns
    /\ IF ~BorrowMutOk(storeFlag) THEN Panic
       ELSE IF memory_id >= Len(memories)
       THEN Returns(Err("memory_teardown", memory_id,
                        "Trying to teardown a non-existent sandboxed memory"))
       ELSE IF ~memories[memory_id + 1].live
       THEN Returns(Err("memory_teardown", memory_id, "Double teardown of a memory"))
       ELSE /\ memories' = [memories EXCEPT ![memory_id + 1] = NoneSlot]
            /\ lastOp' = Ok("memory_teardown", memory_id, 0)
            /\ UNCHANGED <<supMem, instances, table, allocated, storeFlag, allocFlag,
                           stack, fault>>
    /\ UNCHANGED notHost

memory_new(initial, maximum) ==
    /\ SupervisorRuns
    /\ Len(memories) < MaxMemories
    /\ IF ~BorrowMutOk(storeFlag) THEN Panic
       ELSE IF initial > maximum
       THEN Returns(Err("memory_new", 0, "Can't allocate the memory"))
       ELSE /\ memories' = Append(memories,
                                  SomeMemory([i \in 1 .. (initial * PageSize) |-> 0]))
            /\ lastOp' = Ok("memory_new", 0, Len(memories))
            /\ UNCHANGED <<supMem, instances, table, allocated, storeFlag, allocFlag,
                           stack, fault>>
    /\ UNCHANGED notHost

(***************************************************************************)
(* Growth of the memories by the code that owns them (memory.grow).        *)
(***************************************************************************)
\* the supervisor grows its own linear memory between two host calls
supervisor_memory_grow ==
    /\ SupervisorRuns
    /\ Len(supMem) < SupSize + MaxGrow
    /\ supMem' = Append(supMem, 0)
    /\ UNCHANGED <<memories, instances, table, allocated, storeFlag, allocFlag,
                   stack, fault, lastOp>>
    /\ UNCHANGED notHost

\* a Guest Memory has grown by a page since the supervisor last used it
guest_memory_grow(memory_id) ==
    /\ SupervisorRuns
    /\ MemoryLookupErr(memory_id) = ""
    /\ Len(memories[memory_id + 1].bytes) + PageSize <= MaxPages * PageSize
    /\ memories' = [memories EXCEPT ![memory_id + 1].bytes =
                       @ \o [i \in 1 .. PageSize |-> 0]]
    /\ UNCHANGED <<supMem, instances, table, allocated, storeFlag, allocFlag,
                   stack, fault, lastOp>>
    /\ UNCHANGED notHost

(***************************************************************************)
(* FunctionContext::allocate_memory and deallocate_memory                  *)
(***************************************************************************)
AllocPtrs == {0}

allocate_memory(ptr) ==
    /\ SupervisorRuns
    /\ IF ~BorrowMutOk(allocFlag) THEN Panic
       ELSE IF ptr \in allocated
       THEN Returns(Err("allocate_memory", 0, "allocator: out of space"))
       ELSE /\ allocated' = allocated \union {ptr}
            /\ lastOp' = Ok("allocate_memory", 0, ptr)
            /\ UNCHANGED <<supMem, memories, instances, table, storeFlag, allocFlag,
                           stack, fault>>
    /\ UNCHANGED notHost

deallocate_memory(ptr) ==
    /\ SupervisorRuns
    /\ IF ~BorrowMutOk(allocFlag) THEN Panic
       ELSE IF ptr \notin allocated
       THEN Returns(Err("deallocate_memory", 0, "allocator: invalid pointer"))
       ELSE /\ allocated' = allocated \ {ptr}
            /\ lastOp' = Ok("deallocate_memory", 0, 0)
            /\ UNCHANGED <<supMem, memories, instances, table, storeFlag, allocFlag,
                           stack, fault>>
    /\ UNCHANGED notHost

(***************************************************************************)
(* The outer VM's function table (instance.table()).                       *)
(***************************************************************************)
NoTable == [present |-> FALSE, entries |-> << >>]
TableEntries == <<"func", "null", "extern">>
SomeTable == [present |-> TRUE, entries |-> TableEntries]

\* a plausible slip: an index past the table is reported like a bad module
dispatch_thunk_out_of_bounds_as_code(id) == Ok("instance_new", id, ERR_MODULE)

\* instance_new when table.get(dispatch_thunk_id) is None
dispatch_thunk_out_of_bounds(id) ==
    Err("instance_new", id, "dispatch_thunk_id is out of bounds")

\* instance_new: why no dispatch thunk can be taken from the table, "" when one can
dispatch_thunk_err(id) ==
    IF table.entries[id + 1] = "extern" THEN "dispatch_thunk_idx should be a funcref"
    ELSE IF table.entries[id + 1] = "null"
    THEN "dispatch_thunk_idx should point to actual func"
    ELSE ""

(***************************************************************************)
(* Frames: a host call that has entered guest code and waits for it.       *)
(***************************************************************************)
Frame(kind, inst, ptr, len, saved) ==
    [kind |-> kind, inst |-> inst, ptr |-> ptr, len |-> len, saved |-> saved,
     args |-> << >>]

Pop == SubSeq(stack, 1, Len(stack) - 1)

\* a plausible slip: the store stays mutably borrowed while instantiate runs
store_flag_during_instantiate_held(flag) == -1

\* borrow flag of sandbox_store while sandbox::instantiate runs the guest:
\* the decode borrow is dropped with its statement, register borrows afterwards
store_flag_during_instantiate(flag) == flag

\* a plausible slip: the Ref of the instance lookup is kept while the guest runs
store_flag_during_invoke_held(flag) == flag + 1

\* borrow flag of sandbox_store while instance.invoke runs the guest:
\* the Ref taken for the lookup is a temporary of the let statement
store_flag_during_invoke(flag) == flag

(***************************************************************************)
(* <HostContext as Sandbox>::instance_new                                  *)
(***************************************************************************)
\* a plausible slip: a failed decode ends the call with an error
env_decode_failed_as_err(id) == Err("instance_new", id, "Can't decode environment definition")

\* instance_new when GuestEnvironment::decode fails
env_decode_failed(id) == Ok("instance_new", id, ERR_MODULE)

\* up to the call of sandbox::instantiate
instance_new(dispatch_thunk_id, env_ok) ==
    /\ SupervisorRuns
    /\ IF ~table.present
       THEN Returns(Err("instance_new", dispatch_thunk_id,
                        "Runtime doesn't have a table; sandbox is unavailable"))
       ELSE IF dispatch_thunk_id >= Len(table.entries)
       THEN Returns(dispatch_thunk_out_of_bounds(dispatch_thunk_id))
       ELSE IF dispatch_thunk_err(dispatch_thunk_id) # ""
       THEN Returns(Err("instance_new", dispatch_thunk_id,
                        dispatch_thunk_err(dispatch_thunk_id)))
       ELSE IF ~BorrowOk(storeFlag) THEN Panic
       ELSE IF ~env_ok
       THEN Returns(env_decode_failed(dispatch_thunk_id))
       ELSE /\ Len(stack) < MaxDepth
            /\ Len(instances) < MaxInstances
            /\ stack' = Append(stack, Frame("instantiate", dispatch_thunk_id, 0, 0,
                                            storeFlag))
            /\ storeFlag' = store_flag_during_instantiate(storeFlag)
            /\ UNCHANGED <<supMem, memories, instances, table, allocated,
                           allocFlag, fault, lastOp>>
    /\ UNCHANGED notHost

InstantiateOutcomes == {"instance", "start_trapped", "module_error"}

\* a plausible slip: every instantiation failure is reported as a bad module
instantiate_error_code_module(outcome) == ERR_MODULE

\* the status code of a failed sandbox::instantiate
instantiate_error_code(outcome) ==
    IF outcome = "start_trapped" THEN ERR_EXECUTION ELSE ERR_MODULE

\* sandbox::instantiate has returned: map its result, registering the instance
instance_new_return(outcome) ==
    /\ GuestRuns
    /\ Top.kind = "instantiate"
    /\ IF outcome = "instance"
       THEN IF ~BorrowMutOk(Top.saved) THEN Panic
            ELSE /\ instances' = register(instances).insts
                 /\ lastOp' = Ok("instance_new", Top.inst,
                                 register(instances).idx)
                 /\ stack' = Pop
                 /\ storeFlag' = Top.saved
                 /\ UNCHANGED <<supMem, memories, table, allocated, allocFlag, fault>>
       ELSE /\ lastOp' = Ok("instance_new", Top.inst, instantiate_error_code(outcome))
            /\ stack' = Pop
            /\ storeFlag' = Top.saved
            /\ UNCHANGED <<supMem, memories, instances, table, allocated, allocFlag,
                           fault>>
    /\ UNCHANGED notHost

(***************************************************************************)
(* <HostContext as Sandbox>::instance_teardown and get_global_val          *)
(***************************************************************************)
instance_teardown(instance_id) ==
    /\ SupervisorRuns
    /\ IF ~BorrowMutOk(storeFlag) THEN Panic
       ELSE IF instance_id >= Len(instances)
       THEN Returns(Err("instance_teardown", instance_id,
                        "Trying to teardown a non-existent instance"))
       ELSE IF ~instances[instance_id + 1].live
       THEN Returns(Err("instance_teardown", instance_id,
                        "Double teardown of an instance"))
       ELSE /\ instances' = store_instance_teardown(instances, instance_id)
            /\ lastOp' = Ok("instance_teardown", instance_id, 0)
            /\ UNCHANGED <<supMem, memories, table, allocated, storeFlag, allocFlag,
                           stack, fault>>
    /\ UNCHANGED notHost

\* the global read is None (0) or Some (1)
get_global_val(instance_idx, global) ==
    /\ SupervisorRuns
    /\ IF ~BorrowOk(storeFlag) THEN Panic
       ELSE IF InstanceLookupErr(instance_idx) # ""
       THEN Returns(Err("get_global_val", instance_idx, InstanceLookupErr(instance_idx)))
       ELSE Returns(Ok("get_global_val", instance_idx, global))
    /\ UNCHANGED notHost

(***************************************************************************)
(* <HostContext as Sandbox>::invoke                                        *)
(***************************************************************************)
\* a plausible slip: only a handle that was never assigned is refused
invoke_instance_err_unless_assigned(instance_id) ==
    IF instance_id >= Len(instances) THEN InstanceLookupErr(instance_id) ELSE ""

\* the instance lookup, whose error ends the call
invoke_instance_err(instance_id) == InstanceLookupErr(instance_id)

\* up to the call of instance.invoke
sandbox_invoke(instance_id, args_ok, return_val, return_val_len) ==
    /\ SupervisorRuns
    /\ Len(stack) < MaxDepth
    /\ IF ~args_ok
       THEN Returns(Err("invoke", instance_id,
                        "Can't decode serialized arguments for the invocation"))
       ELSE IF ~BorrowOk(storeFlag) THEN Panic
       ELSE IF invoke_instance_err(instance_id) # ""
       THEN Returns(Err("invoke", instance_id, invoke_instance_err(instance_id)))
       ELSE /\ stack' = Append(stack, Frame("invoke", instance_id, return_val,
                                            return_val_len, storeFlag))
            /\ storeFlag' = store_flag_during_invoke(storeFlag)
            /\ UNCHANGED <<supMem, memories, instances, table, allocated, allocFlag,
                           fault, lastOp>>
    /\ UNCHANGED notHost

\* what the guest function gave back: nothing, an encoded value, or an error
ReturnEncodings == {<<1>>, <<1, 1>>}
GuestOutcomes ==
    {[kind |-> "none", enc |-> << >>], [kind |-> "err", enc |-> << >>]}
        \union {[kind |-> "some", enc |-> e] : e \in ReturnEncodings}

\* a plausible slip: a failed guest call is reported as success
invoke_error_status_ok == ERR_OK

\* the status returned when instance.invoke fails
invoke_error_status == ERR_EXECUTION

\* a plausible slip: the length check is off by one
return_value_too_big_by_two(enc, return_val_len) == Len(enc) > return_val_len + 1

\* the encoded return value does not fit the buffer the guest provided
return_value_too_big(enc, return_val_len) == Len(enc) > return_val_len

\* instance.invoke has returned: map its result, writing the value back
sandbox_invoke_return(outcome) ==
    /\ GuestRuns
    /\ Top.kind = "invoke"
    /\ stack' = Pop
    /\ storeFlag' = Top.saved
    /\ IF outcome.kind = "none"
       THEN /\ lastOp' = Ok("invoke", Top.inst, ERR_OK)
            /\ UNCHANGED supMem
       ELSE IF outcome.kind = "err"
       THEN /\ lastOp' = Ok("invoke", Top.inst, invoke_error_status)
            /\ UNCHANGED supMem
       ELSE IF return_value_too_big(outcome.enc, Top.len)
       THEN /\ lastOp' = Err("invoke", Top.inst, "Return value buffer is too small")
            /\ UNCHANGED supMem
       ELSE IF ~InstanceRangeOk(Top.ptr, Len(outcome.enc))
       THEN /\ lastOp' = Err("invoke", Top.inst, "can't write return value")
            /\ UNCHANGED supMem
       ELSE /\ lastOp' = Ok("invoke", Top.inst, ERR_OK)
            /\ supMem' = Overwrite(supMem, Top.ptr, outcome.enc)
    /\ UNCHANGED <<memories, instances, table, allocated, allocFlag, fault>>
    /\ UNCHANGED notHost

(***************************************************************************)
(* <HostContext as SandboxCapabilities>::invoke: the reentrant dispatch.   *)
(***************************************************************************)
\* the arguments dispatch_thunk.call is given
ThunkArgs(invoke_args_ptr, invoke_args_len, state, func_idx) ==
    <<invoke_args_ptr, invoke_args_len, state, func_idx>>

\* the nested guest calls an imported function: the dispatch thunk is entered
capabilities_invoke(invoke_args_ptr, invoke_args_len, state, func_idx) ==
    /\ GuestRuns
    /\ Len(stack) < MaxDepth
    /\ stack' = Append(stack,
                       [Frame("thunk", func_idx, invoke_args_ptr, invoke_args_len,
                              storeFlag)
                          EXCEPT !.args = ThunkArgs(invoke_args_ptr, invoke_args_len,
                                                    state, func_idx)])
    /\ UNCHANGED <<supMem, memories, instances, table, allocated, storeFlag,
                   allocFlag, fault, lastOp>>
    /\ UNCHANGED notHost

\* what dispatch_thunk.call gave back: one i64, one i32, no or two values, a trap
ThunkResults == {"i64", "i32", "none", "two", "trap"}
ThunkValues == {0, 1}
\* the opaque state tokens handed through to the thunk
ThunkStates == {1}

\* a plausible slip: a 32-bit result is widened instead of refused
dispatch_result_coercing(func_idx, ret, v) ==
    IF ret \in {"i64", "i32"} THEN Ok("dispatch", func_idx, v)
    ELSE Err("dispatch", func_idx, "Supervisor function failed")

\* SandboxCapabilities::invoke: the result made of what the thunk gave back
dispatch_result(func_idx, ret, v) ==
    IF ret = "trap" THEN Err("dispatch", func_idx, "trap")
    ELSE IF ret = "none"
    THEN Err("dispatch", func_idx, "Supervisor function returned 0 results, expected 1")
    ELSE IF ret = "two"
    THEN Err("dispatch", func_idx, "Supervisor function returned 2 results, expected 1")
    ELSE IF ret = "i64" THEN Ok("dispatch", func_idx, v)
    ELSE Err("dispatch", func_idx, "Supervisor function returned unexpected result!")

\* the dispatch thunk has returned
capabilities_invoke_return(ret, v) ==
    /\ ~fault
    /\ stack # << >>
    /\ Top.kind = "thunk"
    /\ stack' = Pop
    /\ lastOp' = dispatch_result(Top.inst, ret, v)
    /\ UNCHANGED <<supMem, memories, instances, table, allocated, storeFlag,
                   allocFlag, fault>>
    /\ UNCHANGED notHost

(***************************************************************************)
(* Module Cache (code_cache) and the PrefabWasmModule it stores.           *)
(***************************************************************************)
\* most schedule versions
MaxSchedule == 2
\* most increments of one module's reference count
MaxIncs == 3

\* original (uninstrumented) codes; InvalidCode is rejected by the instrumentation
Codes == {<<1>>, <<2, 2>>}
InvalidCode == <<0>>
Schedules == 1 .. MaxSchedule

\* T::Hashing::hash(original_code): the content hash, one per code
hash(code) == <<"hash", code>>
Hashes == {hash(c) : c \in Codes}

\* the instrumentation pass: the metered code depends on the code and the schedule
instrument(code, version) ==
    [i \in 1 .. (Len(code) + version) |-> IF i <= Len(code) THEN code[i] ELSE 9]

\* PrefabWasmModule
Module(version, refcount, code, original_code_len, original_code, code_hash) ==
    [present |-> TRUE, schedule_version |-> version, refcount |-> refcount,
     code |-> code, original_code_len |-> original_code_len,
     original_code |-> original_code, code_hash |-> code_hash]
NoModule ==
    [present |-> FALSE, schedule_version |-> 0, refcount |-> 0, code |-> << >>,
     original_code_len |-> 0, original_code |-> << >>, code_hash |-> << >>]

\* a plausible slip: the instrumented code is skipped as well
Stored_skipping_code(module) ==
    [module EXCEPT !.original_code = << >>, !.code_hash = << >>, !.code = << >>]

\* what is written to CodeStorage: original_code and code_hash are skipped
Stored(module) == [module EXCEPT !.original_code = << >>, !.code_hash = << >>]

\* prepare::prepare_contract: a fresh module, not yet in use
prepare_contract(code, version) ==
    Module(version, 0, instrument(code, version), Len(code), code, hash(code))

CacheResult(op, h, sched, ok, err, module) ==
    [op |-> op, hash |-> h, sched |-> sched, ok |-> ok, err |-> err,
     code |-> module.code, refcount |-> module.refcount,
     version |-> module.schedule_version,
     fresh |-> module.original_code # << >>, inserted |-> FALSE,
     reinstrumented |-> FALSE]
NoCacheOp == CacheResult("none", << >>, 0, TRUE, "", NoModule)

\* a plausible slip: storing over an existing entry starts its count afresh
store_entry_overwriting(existing, module) == [Stored(module) EXCEPT !.refcount = 2]

\* code_cache::store: the entry under the module's hash after the store
store_entry(existing, module) ==
    IF existing.present THEN [existing EXCEPT !.refcount = existing.refcount + 1]
    ELSE [Stored(module) EXCEPT !.refcount = IF module.original_code # << >> THEN 1
                                             ELSE module.refcount]

\* a plausible slip: the entry is kept until the count would go below zero
decremented_entry_late(existing) ==
    IF existing.refcount = 0 THEN NoModule
    ELSE [existing EXCEPT !.refcount = existing.refcount - 1]

\* code_cache::decrement_refcount / store_decremented: the entry after the
\* decrement; it is deleted when the count reaches 0
decremented_entry(existing) ==
    IF existing.refcount <= 1 THEN NoModule
    ELSE [existing EXCEPT !.refcount = existing.refcount - 1]

\* a plausible slip: the module is re-instrumented on every load
load_entry_always_reinstrumenting(existing, code, sched) ==
    IF sched > 0
    THEN [existing EXCEPT !.code = instrument(code, sched + 1), !.schedule_version = sched + 1]
    ELSE existing

\* code_cache::load: the entry after the lazy re-instrumentation (sched = 0: None)
load_entry(existing, code, sched) ==
    IF sched > 0 /\ existing.schedule_version < sched
    THEN [existing EXCEPT !.code = instrument(code, sched), !.schedule_version = sched]
    ELSE existing

\* a plausible slip: drop_from_storage hands the module to code_cache::store
drop_from_storage_entry_storing(existing, module) == store_entry(existing, module)

\* Executable::drop_from_storage: what code_cache::store_decremented(self) leaves
drop_from_storage_entry(existing, module) == decremented_entry(Stored(module))

\* the module in hand was loaded and nothing has changed its stored entry since
HeldIsCurrent ==
    /\ held.present
    /\ held.original_code = << >>
    /\ codeStorage[held.code_hash] = Stored(held)

\* PrefabWasmModule::from_code
from_code(code, version) ==
    /\ IF code = InvalidCode
       THEN /\ held' = NoModule
            /\ cacheOp' = CacheResult("from_code", << >>, version, FALSE,
                                      "CodeRejected", NoModule)
       ELSE /\ held' = prepare_contract(code, version)
            /\ cacheOp' = CacheResult("from_code", hash(code), version, TRUE, "",
                                      prepare_contract(code, version))
    /\ UNCHANGED <<codeStorage, pristine, nIncs, nDecs, hostVars, otherVars, rangeVars, execVars>>

\* code_cache::load(code_hash, schedule), sched = 0 standing for None
load(h, sched) ==
    IF ~codeStorage[h].present
    THEN /\ cacheOp' = CacheResult("load", h, sched, FALSE, "CodeNotFound", NoModule)
         /\ held' = NoModule
         /\ UNCHANGED <<codeStorage, pristine, nIncs, nDecs>>
    ELSE LET entry == load_entry(codeStorage[h], pristine[h], sched)
         IN  /\ codeStorage' = [codeStorage EXCEPT ![h] = entry]
             /\ held' = [entry EXCEPT !.code_hash = h]
             /\ cacheOp' = [CacheResult("load", h, sched, TRUE, "", entry)
                             EXCEPT !.reinstrumented = entry # codeStorage[h]]
             /\ UNCHANGED <<pristine, nIncs, nDecs>>

\* a plausible slip: the schedule is not handed to the load
from_storage_without_schedule(code_hash, version) ==
    /\ load(code_hash, 0)
    /\ UNCHANGED <<hostVars, otherVars, rangeVars, execVars>>

\* Executable::from_storage
from_storage(code_hash, version) ==
    /\ load(code_hash, version)
    /\ UNCHANGED <<hostVars, otherVars, rangeVars, execVars>>

\* a plausible slip: the load is handed the current schedule
from_storage_noinstr_instrumenting(code_hash) ==
    /\ load(code_hash, MaxSchedule)
    /\ UNCHANGED <<hostVars, otherVars, rangeVars, execVars>>

\* Executable::from_storage_noinstr
from_storage_noinstr(code_hash) ==
    /\ load(code_hash, 0)
    /\ UNCHANGED <<hostVars, otherVars, rangeVars, execVars>>

\* code_cache::store(module) of the module in hand
code_cache_store ==
    /\ held.present
    /\ held.original_code # << >> \/ HeldIsCurrent
    /\ nIncs[held.code_hash] < MaxIncs
    /\ LET h == held.code_hash
           entry == store_entry(codeStorage[h], held)
       IN  /\ codeStorage' = [codeStorage EXCEPT ![h] = entry]
           /\ pristine' = IF held.original_code # << >>
                          THEN [pristine EXCEPT ![h] = held.original_code]
                          ELSE pristine
           /\ cacheOp' = [CacheResult("store", h, held.schedule_version, TRUE, "", held)
                            EXCEPT !.refcount = entry.refcount,
                                   !.inserted = ~codeStorage[h].present]
           /\ nIncs' = [nIncs EXCEPT ![h] = @ + 1]
    /\ held' = NoModule
    /\ UNCHANGED nDecs

\* execute with ExportedFunction::Constructor: code_cache::store(self)
execute_store ==
    /\ code_cache_store
    /\ UNCHANGED <<hostVars, otherVars, rangeVars, execVars>>

\* Executable::drop_from_storage: code_cache::store_decremented(self)
drop_from_storage ==
    /\ HeldIsCurrent
    /\ LET h == held.code_hash
           entry == drop_from_storage_entry(codeStorage[h], held)
       IN  /\ codeStorage' = [codeStorage EXCEPT ![h] = entry]
           /\ pristine' = IF entry.present THEN pristine
                          ELSE [pristine EXCEPT ![h] = << >>]
           /\ cacheOp' = CacheResult("store_decremented", h, 0, TRUE, "", entry)
           /\ nDecs' = [nDecs EXCEPT ![h] = @ + 1]
    /\ held' = NoModule
    /\ UNCHANGED <<nIncs, hostVars, otherVars, rangeVars, execVars>>

\* a plausible slip: the result of increment_refcount is dropped
add_user_ignoring_result(code_hash) ==
    /\ cacheOp' = CacheResult("increment_refcount", code_hash, 0, TRUE, "", NoModule)
    /\ UNCHANGED <<codeStorage, pristine, held, nIncs, nDecs, hostVars, otherVars, rangeVars,
                   execVars>>

\* Executable::add_user: code_cache::increment_refcount
add_user(code_hash) ==
    /\ nIncs[code_hash] < MaxIncs
    /\ IF ~codeStorage[code_hash].present
       THEN /\ cacheOp' = CacheResult("increment_refcount", code_hash, 0, FALSE,
                                      "CodeNotFound", NoModule)
            /\ UNCHANGED <<codeStorage, nIncs>>
       ELSE LET entry == [codeStorage[code_hash] EXCEPT !.refcount = @ + 1]
            IN  /\ codeStorage' = [codeStorage EXCEPT ![code_hash] = entry]
                /\ cacheOp' = CacheResult("increment_refcount", code_hash, 0, TRUE, "",
                                          entry)
                /\ nIncs' = [nIncs EXCEPT ![code_hash] = @ + 1]
    /\ UNCHANGED <<pristine, held, nDecs, hostVars, otherVars, rangeVars, execVars>>

\* Executable::remove_user: code_cache::decrement_refcount
remove_user(code_hash) ==
    /\ IF ~codeStorage[code_hash].present
       THEN /\ cacheOp' = CacheResult("decrement_refcount", code_hash, 0, TRUE, "",
                                      NoModule)
            /\ UNCHANGED <<codeStorage, pristine, nDecs>>
       ELSE LET entry == decremented_entry(codeStorage[code_hash])
            IN  /\ codeStorage' = [codeStorage EXCEPT ![code_hash] = entry]
                /\ pristine' = IF entry.present THEN pristine
                               ELSE [pristine EXCEPT ![code_hash] = << >>]
                /\ cacheOp' = CacheResult("decrement_refcount", code_hash, 0, TRUE, "",
                                          entry)
                /\ nDecs' = [nDecs EXCEPT ![code_hash] = @ + 1]
    /\ UNCHANGED <<held, nIncs, hostVars, otherVars, rangeVars, execVars>>

(***************************************************************************)
(* Execution Driver: PrefabWasmModule::execute, the Runtime whose host     *)
(* functions the contract calls, and the environment (MockExt).            *)
(***************************************************************************)
\* cells of an encoded account id
AccountLen == 2
\* cells of an encoded balance
ValueLen == 2
\* cells of an encoded event topic
TopicLen == 1
\* most host calls a contract is driven to make in one execution
MaxCalls == 2

\* schedule.limits.event_topics: the configured maximum of topics per event
EventTopics == 2
\* ReturnFlags::REVERT
REVERT == 1
ReturnFlagValues == {0, REVERT}
\* the balance the transfer scenario's contract sends
TransferValue == 153

Account(b) == [i \in 1 .. AccountLen |-> b]
ALICE == Account(1)

\* a balance as it lies in contract memory: little endian
EncodeValue(v) == [i \in 1 .. ValueLen |-> (v \div (256 ^ (i - 1))) % 256]

RECURSIVE LittleEndian(_)
LittleEndian(bytes) ==
    IF bytes = << >> THEN 0 ELSE bytes[1] + 256 * LittleEndian(Tail(bytes))

\* a topic list as it lies in contract memory: compact length, then the topics
EncodeTopics(ts) ==
    [k \in 1 .. (1 + Len(ts) * TopicLen) |->
        IF k = 1 THEN 4 * Len(ts) ELSE ts[((k - 2) \div TopicLen) + 1]]

\* what decoding gives: err is "" and val the value, or err is the error
Decoded(val) == [err |-> "", val |-> val]
Failed(error) == [err |-> error, val |-> << >>]

decode_account(bytes) ==
    IF Len(bytes) < AccountLen THEN Failed("DecodingFailed")
    ELSE Decoded(SubSeq(bytes, 1, AccountLen))

decode_value(bytes) ==
    IF Len(bytes) < ValueLen THEN Failed("DecodingFailed")
    ELSE Decoded(LittleEndian(SubSeq(bytes, 1, ValueLen)))

decode_topics(bytes) ==
    IF bytes = << >> THEN Failed("DecodingFailed")
    ELSE IF bytes[1] % 4 # 0 THEN Failed("DecodingFailed")
    ELSE IF Len(bytes) < 1 + (bytes[1] \div 4) * TopicLen THEN Failed("DecodingFailed")
    ELSE Decoded([i \in 1 .. (bytes[1] \div 4) |->
                     SubSeq(bytes, 2 + (i - 1) * TopicLen, 1 + i * TopicLen)])

\* the data segments of the contracts: the destination account, the balance,
\* and four topic lists (too many, duplicates, both, acceptable)
ManyTopics == [i \in 1 .. (EventTopics + 1) |-> i]
DupTopics == <<1, 1>>
BothTopics == [i \in 1 .. (EventTopics + 1) |-> 1]
OkTopics == <<3>>

AccountPtr == 0
ValuePtr == AccountPtr + AccountLen
ManyPtr == ValuePtr + ValueLen
DupPtr == ManyPtr + Len(EncodeTopics(ManyTopics))
BothPtr == DupPtr + Len(EncodeTopics(DupTopics))
OkPtr == BothPtr + Len(EncodeTopics(BothTopics))

ContractMemory ==
    ALICE \o EncodeValue(TransferValue) \o EncodeTopics(ManyTopics)
          \o EncodeTopics(DupTopics) \o EncodeTopics(BothTopics)
          \o EncodeTopics(OkTopics)

\* the (pointer, length) arguments the contracts pass: a range outside the
\* memory, and per kind of argument the segments and one cut short
OutsideArgs == <<Len(ContractMemory), 1>>
AccountArgs ==
    {<<AccountPtr, AccountLen>>, <<ValuePtr, AccountLen>>,
     <<AccountPtr, AccountLen - 1>>, OutsideArgs}
ValueArgs == {<<ValuePtr, ValueLen>>, <<ValuePtr, ValueLen - 1>>, OutsideArgs}
TopicsArgs ==
    {<<ManyPtr, Len(EncodeTopics(ManyTopics))>>,
     <<DupPtr, Len(EncodeTopics(DupTopics))>>,
     <<BothPtr, Len(EncodeTopics(BothTopics))>>,
     <<OkPtr, Len(EncodeTopics(OkTopics))>>,
     <<OkPtr, Len(EncodeTopics(OkTopics)) - 1>>,
     OutsideArgs}
DataArgs == {<<ValuePtr, ValueLen>>, <<AccountPtr, 0>>, OutsideArgs}

\* a plausible slip: a read past the end of the memory yields no bytes
read_sandbox_memory_unchecked(mem, ptr, len) ==
    IF ptr + len > Len(mem) THEN Decoded(<< >>) ELSE Decoded(Slice(mem, ptr, ptr + len))

\* Runtime::read_sandbox_memory
read_sandbox_memory(mem, ptr, len) ==
    IF ptr + len > Len(mem) THEN Failed("OutOfBounds")
    ELSE Decoded(Slice(mem, ptr, ptr + len))

\* Runtime::read_sandbox_memory_as: read, then decode
read_as_account(mem, ptr, len) ==
    IF read_sandbox_memory(mem, ptr, len).err # "" THEN read_sandbox_memory(mem, ptr, len)
    ELSE decode_account(read_sandbox_memory(mem, ptr, len).val)

read_as_value(mem, ptr, len) ==
    IF read_sandbox_memory(mem, ptr, len).err # "" THEN read_sandbox_memory(mem, ptr, len)
    ELSE decode_value(read_sandbox_memory(mem, ptr, len).val)

read_as_topics(mem, ptr, len) ==
    IF read_sandbox_memory(mem, ptr, len).err # "" THEN read_sandbox_memory(mem, ptr, len)
    ELSE decode_topics(read_sandbox_memory(mem, ptr, len).val)

\* MockExt::default
MockExt_default == [transfers |-> << >>, events |-> << >>, terminations |-> << >>]

TransferEntry(to, value) == [to |-> to, value |-> value, data |-> << >>]

\* a plausible slip: the transfer is recorded twice
MockExt_transfer_twice(e, to, value) ==
    [e EXCEPT !.transfers = Append(Append(@, TransferEntry(to, value)),
                                   TransferEntry(to, value))]

\* MockExt::transfer
MockExt_transfer(e, to, value) ==
    [e EXCEPT !.transfers = Append(@, TransferEntry(to, value))]

\* MockExt::deposit_event
MockExt_deposit_event(e, topics, data) ==
    [e EXCEPT !.events = Append(@, [topics |-> topics, data |-> data])]

\* MockExt::terminate
MockExt_terminate(e, beneficiary) ==
    [e EXCEPT !.terminations = Append(@, [beneficiary |-> beneficiary])]

\* why the Runtime stopped the contract, if it did
NoTrap == [kind |-> "none", flags |-> 0, data |-> << >>, error |-> ""]
TrapReturn(flags, data) == [NoTrap EXCEPT !.kind = "Return", !.flags = flags, !.data = data]
TrapTermination == [NoTrap EXCEPT !.kind = "Termination"]
TrapSupervisorError(error) == [NoTrap EXCEPT !.kind = "SupervisorError", !.error = error]

\* ExecResult
ExecOk(flags, data) ==
    [ok |-> TRUE, flags |-> flags, data |-> data, error |-> "", origin |-> ""]
ExecErr(error, origin) ==
    [ok |-> FALSE, flags |-> 0, data |-> << >>, error |-> error, origin |-> origin]
NoResult == ExecErr("", "")

\* ExecReturnValue::is_success
is_success(result) == (result.flags \div REVERT) % 2 = 0

\* Runtime::to_execution_result: the trap reason decides, then the VM's result
to_execution_result(trap, sandbox_ok) ==
    IF trap.kind = "Return" THEN ExecOk(trap.flags, trap.data)
    ELSE IF trap.kind = "Termination" THEN ExecOk(0, << >>)
    ELSE IF trap.kind = "SupervisorError" THEN ExecErr(trap.error, "Caller")
    ELSE IF sandbox_ok THEN ExecOk(0, << >>)
    ELSE ExecErr("ContractTrapped", "Caller")

\* a plausible slip: only the VM's result is translated
execute_result_ignoring_trap(trap, sandbox_ok) == to_execution_result(NoTrap, sandbox_ok)

\* execute: runtime.to_execution_result(result)
execute_result(trap, sandbox_ok) == to_execution_result(trap, sandbox_ok)

NoCall == [fn |-> "", args |-> << >>]
IdleRun ==
    [pc |-> "idle", function |-> "", code_hash |-> << >>, mem |-> << >>, ncalls |-> 0,
     last |-> NoCall, result |-> NoResult]

InitExecIdle ==
    /\ ext = MockExt_default
    /\ run = IdleRun

\* a plausible slip: the module is stored whatever the export
stores_module_always(function) == TRUE

\* execute: if let &ExportedFunction::Constructor = function
stores_module(function) == function = "Constructor"

\* execute, up to the invocation of the export
execute_start(function) ==
    /\ run.pc # "running"
    /\ held.present
    /\ IF stores_module(function) THEN code_cache_store
       ELSE /\ held' = NoModule
            /\ UNCHANGED <<codeStorage, pristine, cacheOp, nIncs, nDecs>>
    /\ ext' = MockExt_default
    /\ run' = [IdleRun EXCEPT !.pc = "running", !.function = function,
                              !.code_hash = held.code_hash, !.mem = ContractMemory]
    /\ UNCHANGED <<hostVars, otherVars, rangeVars>>

\* sp_sandbox::Memory::new(initial, Some(maximum)) returns Err
Memory_new_fails(initial, maximum) == initial > maximum

\* a plausible slip: the failure is handed to the caller as an error
memory_failure_as_error(function) ==
    [IdleRun EXCEPT !.pc = "done", !.function = function,
                    !.result = ExecErr("ContractTrapped", "Caller")]

\* execute: Memory::new(..).unwrap_or_else(|_| panic!(..))
memory_failure(function) == [IdleRun EXCEPT !.pc = "panicked", !.function = function]

\* execute of a module whose page counts Memory::new refuses: the panic
\* unwinds out of execute, and the module in hand is dropped with it
execute_memory_fails(function, initial, maximum) ==
    /\ run.pc # "running"
    /\ held.present
    /\ Memory_new_fails(initial, maximum)
    /\ run' = [memory_failure(function) EXCEPT !.code_hash = held.code_hash]
    /\ held' = NoModule
    /\ UNCHANGED <<ext, codeStorage, pristine, cacheOp, nIncs, nDecs>>
    /\ UNCHANGED <<hostVars, otherVars, rangeVars>>

\* the contract is running and calls a host function
Calls(fn, args) ==
    /\ run.pc = "running"
    /\ run.ncalls < MaxCalls

\* the host function returns to the contract
HostCallReturns(fn, args) ==
    run' = [run EXCEPT !.ncalls = @ + 1, !.last = [fn |-> fn, args |-> args]]

\* the host function traps: the export's invocation fails and execute returns
HostCallTraps(fn, args, trap) ==
    run' = [run EXCEPT !.ncalls = @ + 1, !.last = [fn |-> fn, args |-> args],
                       !.pc = "done", !.result = execute_result(trap, FALSE)]

\* seal_transfer
seal_transfer(account_ptr, account_len, value_ptr, value_len) ==
    /\ Calls("seal_transfer", <<account_ptr, account_len, value_ptr, value_len>>)
    /\ LET args == <<account_ptr, account_len, value_ptr, value_len>>
           callee == read_as_account(run.mem, account_ptr, account_len)
           value == read_as_value(run.mem, value_ptr, value_len)
       IN  IF callee.err # ""
           THEN /\ HostCallTraps("seal_transfer", args, TrapSupervisorError(callee.err))
                /\ UNCHANGED ext
           ELSE IF value.err # ""
           THEN /\ HostCallTraps("seal_transfer", args, TrapSupervisorError(value.err))
                /\ UNCHANGED ext
           ELSE /\ ext' = MockExt_transfer(ext, callee.val, value.val)
                /\ HostCallReturns("seal_transfer", args)
    /\ UNCHANGED <<hostVars, otherVars, rangeVars, cacheVars>>

\* a plausible slip: one topic more than the maximum is let through
too_many_topics_off_by_one(topics) == Len(topics) > EventTopics + 1

too_many_topics(topics) == Len(topics) > EventTopics

has_duplicates(topics) ==
    \E i \in 1 .. Len(topics), j \in 1 .. Len(topics) : i < j /\ topics[i] = topics[j]

\* the errors a topic list can be refused with
topics_errors(topics) ==
    {e \in {"TooManyTopics"} : too_many_topics(topics)}
        \union {e \in {"DuplicateTopics"} : has_duplicates(topics)}

\* seal_deposit_event; err is the error a refused topic list is refused with
seal_deposit_event(topics_ptr, topics_len, data_ptr, data_len, err) ==
    /\ Calls("seal_deposit_event", <<topics_ptr, topics_len, data_ptr, data_len>>)
    /\ LET args == <<topics_ptr, topics_len, data_ptr, data_len>>
           topics == read_as_topics(run.mem, topics_ptr, topics_len)
           data == read_sandbox_memory(run.mem, data_ptr, data_len)
       IN  IF topics.err # ""
           THEN /\ err = topics.err
                /\ HostCallTraps("seal_deposit_event", args,
                                 TrapSupervisorError(topics.err))
                /\ UNCHANGED ext
           ELSE IF topics_errors(topics.val) # {}
           THEN /\ err \in topics_errors(topics.val)
                /\ HostCallTraps("seal_deposit_event", args, TrapSupervisorError(err))
                /\ UNCHANGED ext
           ELSE IF data.err # ""
           THEN /\ err = data.err
                /\ HostCallTraps("seal_deposit_event", args,
                                 TrapSupervisorError(data.err))
                /\ UNCHANGED ext
           ELSE /\ err = ""
                /\ ext' = MockExt_deposit_event(ext, topics.val, data.val)
                /\ HostCallReturns("seal_deposit_event", args)
    /\ UNCHANGED <<hostVars, otherVars, rangeVars, cacheVars>>

\* seal_terminate
seal_terminate(beneficiary_ptr, beneficiary_len) ==
    /\ Calls("seal_terminate", <<beneficiary_ptr, beneficiary_len>>)
    /\ LET args == <<beneficiary_ptr, beneficiary_len>>
           beneficiary == read_as_account(run.mem, beneficiary_ptr, beneficiary_len)
       IN  IF beneficiary.err # ""
           THEN /\ HostCallTraps("seal_terminate", args,
                                 TrapSupervisorError(beneficiary.err))
                /\ UNCHANGED ext
           ELSE /\ ext' = MockExt_terminate(ext, beneficiary.val)
                /\ HostCallTraps("seal_terminate", args, TrapTermination)
    /\ UNCHANGED <<hostVars, otherVars, rangeVars, cacheVars>>

\* seal_return
seal_return(flags, data_ptr, data_len) ==
    /\ Calls("seal_return", <<flags, data_ptr, data_len>>)
    /\ LET args == <<flags, data_ptr, data_len>>
           data == read_sandbox_memory(run.mem, data_ptr, data_len)
       IN  IF data.err # ""
           THEN HostCallTraps("seal_return", args, TrapSupervisorError(data.err))
           ELSE HostCallTraps("seal_return", args, TrapReturn(flags, data.val))
    /\ UNCHANGED <<ext, hostVars, otherVars, rangeVars, cacheVars>>

\* the export returns, or the contract executes a trapping instruction
contract_ends(sandbox_ok) ==
    /\ run.pc = "running"
    /\ run' = [run EXCEPT !.pc = "done", !.result = execute_result(NoTrap, sandbox_ok)]
    /\ UNCHANGED <<ext, hostVars, otherVars, rangeVars, cacheVars>>

(***************************************************************************)
(* The wire format of the arguments of sandbox invoke: a vector of typed   *)
(* values, a length prefix and then per value a tag and its little-endian  *)
(* bytes; invoke decodes it and converts the values for the guest.         *)
(***************************************************************************)
\* most values of an argument vector
MaxArgs == 2
\* cells of a 32-bit value and of a 64-bit value
I32Len == 1
I64Len == 2

\* sp_wasm_interface::Value; the variant index is the position less one
ValueTags == <<"I32", "I64", "F32", "F64">>
WasmValue(tag, val) == [tag |-> tag, val |-> val]
TagIndex(tag) == (CHOOSE i \in 1 .. Len(ValueTags) : ValueTags[i] = tag) - 1
WidthOf(tag) == IF tag \in {"I32", "F32"} THEN I32Len ELSE I64Len
IsSigned(tag) == tag \in {"I32", "I64"}

\* two's complement of the value's width; F32 and F64 hold their bits unsigned
ToBits(tag, val) == IF val < 0 THEN val + 256 ^ WidthOf(tag) ELSE val
FromBits(tag, bits) ==
    IF IsSigned(tag) /\ bits >= (256 ^ WidthOf(tag)) \div 2
    THEN bits - 256 ^ WidthOf(tag) ELSE bits

LittleEndianBytes(n, width) == [i \in 1 .. width |-> (n \div (256 ^ (i - 1))) % 256]

\* Encode for Value: the variant index, then the value
Value_encode(v) == <<TagIndex(v.tag)>> \o LittleEndianBytes(ToBits(v.tag, v.val), WidthOf(v.tag))

RECURSIVE Values_encode(_)
Values_encode(vs) ==
    IF vs = << >> THEN << >> ELSE Value_encode(Head(vs)) \o Values_encode(Tail(vs))

\* Encode for Vec<Value>: the compact length (single-byte mode), then the values
Vec_encode(vs) == <<4 * Len(vs)>> \o Values_encode(vs)

\* Decode for Value at the head of bytes: the value and the bytes left
Value_decode(bytes) ==
    IF bytes = << >> THEN Failed("no tag")
    ELSE IF bytes[1] >= Len(ValueTags) THEN Failed("unknown variant")
    ELSE IF Len(bytes) < 1 + WidthOf(ValueTags[bytes[1] + 1]) THEN Failed("not enough data")
    ELSE Decoded([value |-> WasmValue(ValueTags[bytes[1] + 1],
                                       FromBits(ValueTags[bytes[1] + 1],
                                                LittleEndian(SubSeq(bytes, 2,
                                                    1 + WidthOf(ValueTags[bytes[1] + 1]))))),
                  rest |-> SubSeq(bytes, 2 + WidthOf(ValueTags[bytes[1] + 1]), Len(bytes))])

\* n values from the head of bytes; bytes after the last value are left unread
RECURSIVE Values_decode(_, _)
Values_decode(bytes, n) ==
    IF n = 0 THEN Decoded(<< >>)
    ELSE IF Value_decode(bytes).err # "" THEN Value_decode(bytes)
    ELSE IF Values_decode(Value_decode(bytes).val.rest, n - 1).err # ""
    THEN Values_decode(Value_decode(bytes).val.rest, n - 1)
    ELSE Decoded(<<Value_decode(bytes).val.value>>
                     \o Values_decode(Value_decode(bytes).val.rest, n - 1).val)

\* Decode for Vec<Value>
Vec_decode(bytes) ==
    IF bytes = << >> THEN Failed("no length")
    ELSE IF bytes[1] % 4 # 0 THEN Failed("length outside the single-byte mode")
    ELSE Values_decode(Tail(bytes), bytes[1] \div 4)

\* From<Value> for the guest's value type: the same variant with the same value
into_runtime_value(v) ==
    CASE v.tag = "I32" -> WasmValue("I32", v.val)
      [] v.tag = "I64" -> WasmValue("I64", v.val)
      [] v.tag = "F32" -> WasmValue("F32", v.val)
      [] v.tag = "F64" -> WasmValue("F64", v.val)

\* a plausible slip: the integers are converted from their bits without the sign
invoke_args_unsigned(args) ==
    IF Vec_decode(args).err # ""
    THEN Failed("Can't decode serialized arguments for the invocation")
    ELSE Decoded([i \in 1 .. Len(Vec_decode(args).val) |->
                     WasmValue(Vec_decode(args).val[i].tag,
                               ToBits(Vec_decode(args).val[i].tag,
                                      Vec_decode(args).val[i].val))])

\* Sandbox::invoke: deserialize the arguments and convert them
invoke_args(args) ==
    IF Vec_decode(args).err # ""
    THEN Failed("Can't decode serialized arguments for the invocation")
    ELSE Decoded([i \in 1 .. Len(Vec_decode(args).val) |->
                     into_runtime_value(Vec_decode(args).val[i])])

\* the typed values the argument vectors are made of
ArgValues ==
    {WasmValue("I32", v) : v \in {-1, 0, 1}}
        \union {WasmValue("I64", v) : v \in {-1, 0, ((256 ^ I64Len) \div 2) - 1}}
        \union {WasmValue("F32", v) : v \in {0, (256 ^ I32Len) - 1}}
        \union {WasmValue("F64", v) : v \in {1}}
ArgVectors == UNION {[1 .. n -> ArgValues] : n \in 0 .. MaxArgs}

NoArgs == Failed("")
IdleWire == [pc |-> "idle", values |-> << >>, bytes |-> << >>, cut |-> FALSE, args |-> NoArgs]
InitWireIdle == wire = IdleWire

\* the supervisor serializes the argument vector
wire_encode ==
    /\ wire.pc = "values"
    /\ wire' = [wire EXCEPT !.pc = "encoded", !.bytes = Vec_encode(wire.values)]
    /\ UNCHANGED <<hostVars, rangeVars, cacheVars, execVars, numVars, timeVars, addrVars, txVars>>

\* the supervisor passes a buffer one byte too short
wire_truncate ==
    /\ wire.pc = "encoded"
    /\ ~wire.cut
    /\ wire' = [wire EXCEPT !.cut = TRUE,
                            !.bytes = SubSeq(wire.bytes, 1, Len(wire.bytes) - 1)]
    /\ UNCHANGED <<hostVars, rangeVars, cacheVars, execVars, numVars, timeVars, addrVars, txVars>>

\* invoke decodes the buffer
wire_invoke ==
    /\ wire.pc = "encoded"
    /\ wire' = [wire EXCEPT !.pc = "decoded", !.args = invoke_args(wire.bytes)]
    /\ UNCHANGED <<hostVars, rangeVars, cacheVars, execVars, numVars, timeVars, addrVars, txVars>>

(***************************************************************************)
(* The Timestamp pallet: set, once per block, and the finalization hook.   *)
(***************************************************************************)
\* bits of a Moment
MomentBits == 3
\* blocks that are executed
MaxBlocks == 3
\* MinimumPeriod of the test runtime
MinimumPeriod == 5

MomentLimit == 2 ^ MomentBits
Moments == 0 .. (MomentLimit - 1)
Origins == {"None", "Signed"}

TimeResult(op, now, outcome, msg) == [op |-> op, now |-> now, outcome |-> outcome, msg |-> msg]
NoTimeOp == TimeResult("genesis", 0, "ok", "")
\* a panic ends the execution of the block
TimeRuns == timeOp.outcome # "panic"
TimePanics(op, now, msg) ==
    /\ timeOp' = TimeResult(op, now, "panic", msg)
    /\ UNCHANGED <<Now, DidUpdate, blockPhase, blockNumber, setsInBlock>>

InitTimeIdle ==
    /\ Now = 0
    /\ DidUpdate = FALSE
    /\ timeOp = NoTimeOp
    /\ blockPhase = "between"
    /\ blockNumber = 0
    /\ setsInBlock = 0

\* a plausible slip: the flag is not looked at
DidUpdate_exists_never == FALSE

\* DidUpdate::<T>::exists()
DidUpdate_exists == DidUpdate

\* a plausible slip: the flag is read, not taken
DidUpdate_get == [value |-> DidUpdate, left |-> DidUpdate]

\* DidUpdate::<T>::take(): the stored value (false when absent); the key is removed
DidUpdate_take == [value |-> DidUpdate, left |-> FALSE]

\* prev + T::MinimumPeriod::get() overflows the Moment
minimum_overflows(prev) == prev + MinimumPeriod >= MomentLimit

\* prev + T::MinimumPeriod::get(), in the Moment's width
minimum_time(prev) == (prev + MinimumPeriod) % MomentLimit

\* Hooks::on_initialize: returns the weight of on_finalize; the block begins
on_initialize ==
    /\ TimeRuns
    /\ blockPhase = "between"
    /\ blockNumber < MaxBlocks
    /\ blockPhase' = "in_block"
    /\ blockNumber' = blockNumber + 1
    /\ setsInBlock' = 0
    /\ timeOp' = TimeResult("on_initialize", 0, "ok", "")
    /\ UNCHANGED <<Now, DidUpdate>>
    /\ UNCHANGED <<hostVars, rangeVars, cacheVars, execVars, numVars, wireVars, addrVars, txVars>>

\* Hooks::on_finalize
on_finalize ==
    /\ TimeRuns
    /\ blockPhase = "in_block"
    /\ IF ~DidUpdate_take.value
       THEN TimePanics("on_finalize", 0, "Timestamp must be updated once in the block")
       ELSE /\ DidUpdate' = DidUpdate_take.left
            /\ blockPhase' = "between"
            /\ timeOp' = TimeResult("on_finalize", 0, "ok", "")
            /\ UNCHANGED <<Now, blockNumber, setsInBlock>>
    /\ UNCHANGED <<hostVars, rangeVars, cacheVars, execVars, numVars, wireVars, addrVars, txVars>>

\* Pallet::set; overflow_checks: whether the build panics when an addition
\* overflows (it wraps otherwise)
timestamp_set(origin, now, overflow_checks) ==
    /\ TimeRuns
    /\ blockPhase = "in_block"
    /\ IF origin # "None"
       THEN /\ timeOp' = TimeResult("set", now, "err", "BadOrigin")
            /\ UNCHANGED <<Now, DidUpdate, blockPhase, blockNumber, setsInBlock>>
       ELSE IF DidUpdate_exists
       THEN TimePanics("set", now, "Timestamp must be updated only once in the block")
       ELSE IF Now # 0 /\ minimum_overflows(Now) /\ overflow_checks
       THEN TimePanics("set", now, "attempt to add with overflow")
       ELSE IF ~(Now = 0 \/ now >= minimum_time(Now))
       THEN TimePanics("set", now,
               "Timestamp must increment by at least <MinimumPeriod> between sequential blocks")
       ELSE /\ Now' = now
            /\ DidUpdate' = TRUE
            /\ setsInBlock' = setsInBlock + 1
            /\ timeOp' = TimeResult("set", now, "ok", "")
            /\ UNCHANGED <<blockPhase, blockNumber>>
    /\ UNCHANGED <<hostVars, rangeVars, cacheVars, execVars, numVars, wireVars, addrVars, txVars>>

(***************************************************************************)
(* AddrCache of the authority discovery worker: addresses by authority and *)
(* authority by peer.                                                      *)
(***************************************************************************)
MaxAuthorities == 2
MaxPeers == 2
\* most addresses given to one insert
MaxAddrs == 2

Authorities == 1 .. MaxAuthorities
Peers == 1 .. MaxPeers
NoPeer == 0
NoAuthority == 0

\* a Multiaddr: its place in the byte order, and its last protocol
Multiaddr(order, name, multihash) ==
    [order |-> order, last |-> [name |-> name, multihash |-> multihash]]
\* one address without a peer, and one address of every peer
Multiaddrs ==
    {Multiaddr(0, "tcp", 0)} \union {Multiaddr(q, "p2p", q) : q \in Peers}
AddressVecs == UNION {[1 .. n -> Multiaddrs] : n \in 0 .. MaxAddrs}

\* peer_id_from_multiaddr: the peer of a last protocol P2p, else None
peer_id_from_multiaddr(addr) ==
    IF addr.last.name = "p2p" /\ addr.last.multihash \in Peers
    THEN addr.last.multihash ELSE NoPeer

Occurrences(seq, x) == Cardinality({i \in 1 .. Len(seq) : seq[i] = x})

\* addresses.sort_unstable_by(|a, b| a.as_ref().cmp(b.as_ref()))
sort_unstable(addresses) ==
    CHOOSE sorted \in [1 .. Len(addresses) -> {addresses[i] : i \in 1 .. Len(addresses)}] :
        /\ \A i \in 1 .. Len(addresses), j \in 1 .. Len(addresses) :
              i < j => sorted[i].order <= sorted[j].order
        /\ \A i \in 1 .. Len(addresses) :
              Occurrences(sorted, addresses[i]) = Occurrences(addresses, addresses[i])

AddrResult(op, ids, outcome) == [op |-> op, ids |-> ids, outcome |-> outcome]
NoAddrOp == AddrResult("new", {}, "ok")
AddrRuns == addrOp.outcome # "panic"

\* AddrCache::new
InitAddrIdle ==
    /\ authority_id_to_addresses = [a \in Authorities |-> << >>]
    /\ peer_id_to_authority_id = [q \in Peers |-> NoAuthority]
    /\ addrOp = NoAddrOp

\* AddrCache::get_addresses_by_authority_id; << >> is None
get_addresses_by_authority_id(authority_id) == authority_id_to_addresses[authority_id]

\* AddrCache::get_authority_id_by_peer_id; NoAuthority is None
get_authority_id_by_peer_id(peer_id) == peer_id_to_authority_id[peer_id]

\* AddrCache::num_ids
num_ids == Cardinality({a \in Authorities : authority_id_to_addresses[a] # << >>})

\* AddrCache::insert
AddrCache_insert(authority_id, addresses) ==
    /\ AddrRuns
    /\ IF addresses = << >>
       THEN UNCHANGED <<authority_id_to_addresses, peer_id_to_authority_id>>
       ELSE /\ peer_id_to_authority_id' =
                  [q \in Peers |->
                      IF \E i \in 1 .. Len(addresses) :
                            peer_id_from_multiaddr(addresses[i]) = q
                      THEN authority_id ELSE peer_id_to_authority_id[q]]
            /\ authority_id_to_addresses' =
                  [authority_id_to_addresses EXCEPT ![authority_id] =
                      sort_unstable(addresses)]
    /\ addrOp' = AddrResult("insert", {authority_id}, "ok")
    /\ UNCHANGED <<hostVars, rangeVars, cacheVars, execVars, numVars, wireVars, timeVars, txVars>>

\* the sequences of distinct authorities
AuthorityOrders ==
    UNION {{order \in [1 .. n -> Authorities] :
               \A i \in 1 .. n, j \in 1 .. n : i # j => order[i] # order[j]} :
           n \in 0 .. MaxAuthorities}

\* the orders in which the map may yield the entries to remove
RemovalOrders(authority_ids) ==
    LET remove == {a \in Authorities :
                      authority_id_to_addresses[a] # << >> /\ a \notin authority_ids}
    IN  {order \in [1 .. Cardinality(remove) -> remove] :
            \A i \in 1 .. Cardinality(remove), j \in 1 .. Cardinality(remove) :
                i # j => order[i] # order[j]}

\* retain_ids, the inner loop: the peers of the removed addresses are removed;
\* debug_assert_eq! panics in a build with debug assertions
RECURSIVE remove_peers(_, _, _, _)
remove_peers(peers, addresses, authority_id_to_remove, debug_assertions) ==
    IF addresses = << >> THEN [peers |-> peers, panicked |-> FALSE]
    ELSE IF peer_id_from_multiaddr(Head(addresses)) = NoPeer
    THEN remove_peers(peers, Tail(addresses), authority_id_to_remove, debug_assertions)
    ELSE IF peers[peer_id_from_multiaddr(Head(addresses))] = NoAuthority
    THEN remove_peers(peers, Tail(addresses), authority_id_to_remove, debug_assertions)
    ELSE IF /\ debug_assertions
            /\ peers[peer_id_from_multiaddr(Head(addresses))] # authority_id_to_remove
    THEN [peers |-> [peers EXCEPT ![peer_id_from_multiaddr(Head(addresses))] = NoAuthority],
          panicked |-> TRUE]
    ELSE remove_peers(
            [peers EXCEPT ![peer_id_from_multiaddr(Head(addresses))] = NoAuthority],
            Tail(addresses), authority_id_to_remove, debug_assertions)

\* retain_ids, the outer loop over the authorities to remove
RECURSIVE remove_authorities(_, _, _)
remove_authorities(cache, order, debug_assertions) ==
    IF order = << >> THEN cache
    ELSE LET removed == remove_peers(cache.peers, cache.addresses[Head(order)],
                                     Head(order), debug_assertions)
             next == [addresses |-> [cache.addresses EXCEPT ![Head(order)] = << >>],
                      peers |-> removed.peers,
                      panicked |-> removed.panicked]
         IN  IF removed.panicked THEN next
             ELSE remove_authorities(next, Tail(order), debug_assertions)

\* AddrCache::retain_ids
AddrCache_retain_ids(authority_ids, order, debug_assertions) ==
    /\ AddrRuns
    /\ order \in RemovalOrders(authority_ids)
    /\ LET cache == remove_authorities(
                        [addresses |-> authority_id_to_addresses,
                         peers |-> peer_id_to_authority_id,
                         panicked |-> FALSE], order, debug_assertions)
       IN  /\ authority_id_to_addresses' = cache.addresses
           /\ peer_id_to_authority_id' = cache.peers
           /\ addrOp' = AddrResult("retain_ids", authority_ids,
                                   IF cache.panicked THEN "panic" ELSE "ok")
    /\ UNCHANGED <<hostVars, rangeVars, cacheVars, execVars, numVars, wireVars, timeVars, txVars>>

(***************************************************************************)
(* Storage transactions: with_transaction over the storage overlay.        *)
(***************************************************************************)
\* deepest nesting of with_transaction
MaxTxDepth == 2
MaxKeys == 1
\* largest stored value
MaxValue == 1

StorageKeys == 1 .. MaxKeys
StorageValues == 0 .. MaxValue
\* a transaction has not written the key
Untouched == -1
NoChanges == [k \in StorageKeys |-> Untouched]

\* the value a read of key gives: the innermost change, else the committed value
RECURSIVE overlay_value(_, _, _)
overlay_value(base, layers, key) ==
    IF layers = << >> THEN base[key]
    ELSE IF layers[Len(layers)][key] # Untouched THEN layers[Len(layers)][key]
    ELSE overlay_value(base, SubSeq(layers, 1, Len(layers) - 1), key)

StorageView(base, layers) == [k \in StorageKeys |-> overlay_value(base, layers, k)]

\* sp_io::storage::start_transaction
start_transaction(layers) == Append(layers, NoChanges)

\* sp_io::storage::rollback_transaction: the innermost changes are dropped
rollback_transaction(base, layers) ==
    [base |-> base, layers |-> SubSeq(layers, 1, Len(layers) - 1)]

\* sp_io::storage::commit_transaction: the innermost changes go to the parent
commit_transaction(base, layers) ==
    IF Len(layers) = 1
    THEN [base |-> [k \in StorageKeys |->
                       IF layers[1][k] # Untouched THEN layers[1][k] ELSE base[k]],
          layers |-> << >>]
    ELSE [base |-> base,
          layers |-> [SubSeq(layers, 1, Len(layers) - 1) EXCEPT ![Len(layers) - 1] =
                         [k \in StorageKeys |->
                             IF layers[Len(layers)][k] # Untouched
                             THEN layers[Len(layers)][k] ELSE @[k]]]]

\* a plausible slip: the transaction is committed whatever the outcome
transaction_end_committing(outcome, base, layers) == commit_transaction(base, layers)

\* with_transaction: match f() { Commit => commit_transaction, Rollback => rollback_transaction }
transaction_end(outcome, base, layers) ==
    IF outcome = "Commit" THEN commit_transaction(base, layers)
    ELSE rollback_transaction(base, layers)

\* debug_helper::inc_transaction_level
inc_transaction_level(level) == level + 1

\* a plausible slip: the guard is forgotten and never dropped
TransactionLevelGuard_drop_forgotten(level) == level

\* Drop for TransactionLevelGuard, when with_transaction returns
TransactionLevelGuard_drop(level) == level - 1

\* debug_helper::require_transaction: whether it panics
require_transaction_panics(level) == level = 0

TxResult(op, outcome, commits, changed) ==
    [op |-> op, outcome |-> outcome, commits |-> commits, changed |-> changed]
NoTxOp == TxResult("none", "", 0, FALSE)
TxRuns == txOp.outcome # "panic"

InitTxIdle ==
    /\ txBase = [k \in StorageKeys |-> 0]
    /\ txLayers = << >>
    /\ txFrames = << >>
    /\ txOp = NoTxOp
    /\ TRANSACTION_LEVEL = 0

\* a storage write by the running code
storage_put(key, value) ==
    /\ TxRuns
    /\ IF txLayers = << >>
       THEN /\ txBase' = [txBase EXCEPT ![key] = value]
            /\ UNCHANGED txLayers
       ELSE /\ txLayers' = [txLayers EXCEPT ![Len(txLayers)][key] = value]
            /\ UNCHANGED txBase
    /\ txOp' = TxResult("put", "", 0, FALSE)
    /\ UNCHANGED <<txFrames, TRANSACTION_LEVEL>>
    /\ UNCHANGED <<hostVars, rangeVars, cacheVars, execVars, numVars, wireVars, timeVars, addrVars>>

\* require_transaction; debug_helper: whether the build has the helper
require_transaction(debug_helper) ==
    /\ TxRuns
    /\ txOp' = TxResult("require_transaction",
                        IF debug_helper /\ require_transaction_panics(TRANSACTION_LEVEL)
                        THEN "panic" ELSE "ok",
                        0, FALSE)
    /\ UNCHANGED <<txBase, txLayers, txFrames, TRANSACTION_LEVEL>>
    /\ UNCHANGED <<hostVars, rangeVars, cacheVars, execVars, numVars, wireVars, timeVars, addrVars>>

\* with_transaction, up to the call of f
with_transaction ==
    /\ TxRuns
    /\ Len(txFrames) < MaxTxDepth
    /\ txLayers' = start_transaction(txLayers)
    /\ txFrames' = Append(txFrames, [entry |-> StorageView(txBase, txLayers), commits |-> 0])
    /\ txOp' = TxResult("with_transaction", "", 0, FALSE)
    /\ TRANSACTION_LEVEL' = inc_transaction_level(TRANSACTION_LEVEL)
    /\ UNCHANGED txBase
    /\ UNCHANGED <<hostVars, rangeVars, cacheVars, execVars, numVars, wireVars, timeVars, addrVars>>

\* with_transaction, from the return of f with the outcome
with_transaction_return(outcome) ==
    /\ TxRuns
    /\ txFrames # << >>
    /\ txBase' = transaction_end(outcome, txBase, txLayers).base
    /\ txLayers' = transaction_end(outcome, txBase, txLayers).layers
    /\ txFrames' =
          IF Len(txFrames) = 1 THEN << >>
          ELSE [SubSeq(txFrames, 1, Len(txFrames) - 1) EXCEPT ![Len(txFrames) - 1].commits =
                   IF /\ outcome = "Commit"
                      /\ StorageView(txBase, txLayers) # txFrames[Len(txFrames)].entry
                   THEN 1 ELSE @]
    /\ txOp' = TxResult("with_transaction_return", outcome,
                        txFrames[Len(txFrames)].commits,
                        StorageView(txBase, txLayers) # txFrames[Len(txFrames)].entry)
    /\ TRANSACTION_LEVEL' = TransactionLevelGuard_drop(TRANSACTION_LEVEL)
    /\ UNCHANGED <<hostVars, rangeVars, cacheVars, execVars, numVars, wireVars, timeVars, addrVars>>

(***************************************************************************)
(* PrefabWasmModule::occupied_storage: the storage share of one user.      *)
(***************************************************************************)
\* width of u32 in bits (scaled down); u64 and usize have twice the width
U32Bits == 2

U32Limit == 2 ^ U32Bits
U64Limit == 2 ^ (2 * U32Bits)

\* `x as u32`: the low bits
as_u32(x) == x % U32Limit

\* u32::saturating_add
saturating_add(a, b) == IF a + b >= U32Limit THEN U32Limit - 1 ELSE a + b

\* u32::checked_div: None (here -1) when the divisor is 0
checked_div(a, b) == IF b = 0 THEN -1 ELSE a \div b

occupied_storage(original_code_len, code_len, refcount) ==
    LET len == saturating_add(original_code_len, as_u32(code_len))
    IN  IF checked_div(len, as_u32(refcount)) = -1 THEN len
        ELSE checked_div(len, as_u32(refcount))

\* the fields of a module: original_code_len: u32, code.len(), refcount: u64
OccupiedInputs ==
    [original_code_len : 0 .. (U32Limit - 1), code_len : 0 .. (U32Limit - 1),
     refcount : 0 .. (U64Limit - 1)]
IdleOcc == [pc |-> "idle", module |-> [original_code_len |-> 0, code_len |-> 0,
                                     refcount |-> 0], out |-> 0]

occupied_storage_call ==
    /\ occ.pc = "input"
    /\ occ' = [occ EXCEPT !.pc = "done",
                          !.out = occupied_storage(occ.module.original_code_len,
                                                   occ.module.code_len,
                                                   occ.module.refcount)]
    /\ UNCHANGED <<tally, tallyOp>>
    /\ UNCHANGED <<hostVars, rangeVars, cacheVars, execVars, wireVars, timeVars, addrVars,
                   txVars>>

occupied_next_module(module) ==
    /\ occ.pc = "done"
    /\ occ' = [pc |-> "input", module |-> module, out |-> 0]
    /\ UNCHANGED <<tally, tallyOp>>
    /\ UNCHANGED <<hostVars, rangeVars, cacheVars, execVars, wireVars, timeVars, addrVars,
                   txVars>>

(***************************************************************************)
(* democracy: the Tally of a referendum and the votes added and removed.   *)
(***************************************************************************)
\* width of Balance in bits (scaled down)
BalanceBits == 3

BalanceLimit == 2 ^ BalanceBits
Balances == 0 .. (BalanceLimit - 1)

\* Conviction, with the factor its votes are multiplied by (None: a tenth)
Convictions == {"None", "Locked1x", "Locked2x"}
ConvictionFactor(conviction) == IF conviction = "Locked2x" THEN 2 ELSE 1

\* Conviction::votes: the votes and the capital of a balance
Conviction_votes(conviction, balance) ==
    [votes |-> IF conviction = "None" THEN balance \div 10
               ELSE IF balance * ConvictionFactor(conviction) >= BalanceLimit
               THEN BalanceLimit - 1
               ELSE balance * ConvictionFactor(conviction),
     capital |-> balance]

\* AccountVote::Standard and AccountVote::Split
Standard(aye, conviction, balance) ==
    [kind |-> "Standard", aye |-> aye, conviction |-> conviction, balance |-> balance,
     nay |-> 0]
Split(aye, nay) ==
    [kind |-> "Split", aye |-> aye, conviction |-> "None", balance |-> 0, nay |-> nay]
AccountVotes ==
    {Standard(aye, conviction, balance) :
        aye \in BOOLEAN, conviction \in Convictions, balance \in Balances}
        \union {Split(aye, nay) : aye \in Balances, nay \in Balances}

\* Balance::checked_add and Balance::checked_sub: None is -1
Balance_checked_add(a, b) == IF a + b >= BalanceLimit THEN -1 ELSE a + b
Balance_checked_sub(a, b) == IF a < b THEN -1 ELSE a - b

Tally(ayes, nays, turnout) == [ayes |-> ayes, nays |-> nays, turnout |-> turnout]
TallyReturn(t, some) == [tally |-> t, some |-> some]

\* the checked operation of Tally::add ("add") and of Tally::remove ("remove")
Tally_checked(op, a, b) ==
    IF op = "add" THEN Balance_checked_add(a, b) ELSE Balance_checked_sub(a, b)

\* the body shared by Tally::add and Tally::remove, statement by statement:
\* every `?` returns None with the fields assigned so far
Tally_update(t, vote, op) ==
    IF vote.kind = "Standard"
    THEN LET d == Conviction_votes(vote.conviction, vote.balance)
             turnout == Tally_checked(op, t.turnout, d.capital)
             t1 == [t EXCEPT !.turnout = turnout]
         IN  IF turnout = -1 THEN TallyReturn(t, FALSE)
             ELSE IF vote.aye
             THEN IF Tally_checked(op, t.ayes, d.votes) = -1 THEN TallyReturn(t1, FALSE)
                  ELSE TallyReturn([t1 EXCEPT !.ayes = Tally_checked(op, t.ayes, d.votes)], TRUE)
             ELSE IF Tally_checked(op, t.nays, d.votes) = -1 THEN TallyReturn(t1, FALSE)
                  ELSE TallyReturn([t1 EXCEPT !.nays = Tally_checked(op, t.nays, d.votes)], TRUE)
    ELSE LET aye == Conviction_votes("None", vote.aye)
             nay == Conviction_votes("None", vote.nay)
             first == Tally_checked(op, t.turnout, aye.capital)
             turnout == IF first = -1 THEN -1 ELSE Tally_checked(op, first, nay.capital)
             t1 == [t EXCEPT !.turnout = turnout]
             t2 == [t1 EXCEPT !.ayes = Tally_checked(op, t.ayes, aye.votes)]
         IN  IF turnout = -1 THEN TallyReturn(t, FALSE)
             ELSE IF Tally_checked(op, t.ayes, aye.votes) = -1 THEN TallyReturn(t1, FALSE)
             ELSE IF Tally_checked(op, t.nays, nay.votes) = -1 THEN TallyReturn(t2, FALSE)
             ELSE TallyReturn([t2 EXCEPT !.nays = Tally_checked(op, t.nays, nay.votes)], TRUE)

\* Tally::new
Tally_new_value(aye, conviction, balance) ==
    Tally(IF aye THEN Conviction_votes(conviction, balance).votes ELSE 0,
          IF aye THEN 0 ELSE Conviction_votes(conviction, balance).votes,
          Conviction_votes(conviction, balance).capital)

TallyResult(op, some) == [op |-> op, some |-> some]

\* Tally::default, and no module given to occupied_storage
InitTallyIdle ==
    /\ tally = Tally(0, 0, 0)
    /\ tallyOp = TallyResult("default", TRUE)
InitNumIdle ==
    /\ occ = IdleOcc
    /\ InitTallyIdle

Tally_new(aye, conviction, balance) ==
    /\ tally' = Tally_new_value(aye, conviction, balance)
    /\ tallyOp' = TallyResult("new", TRUE)
    /\ UNCHANGED occ
    /\ UNCHANGED <<hostVars, rangeVars, cacheVars, execVars, wireVars, timeVars, addrVars,
                   txVars>>

Tally_add(vote) ==
    /\ tally' = Tally_update(tally, vote, "add").tally
    /\ tallyOp' = TallyResult("add", Tally_update(tally, vote, "add").some)
    /\ UNCHANGED occ
    /\ UNCHANGED <<hostVars, rangeVars, cacheVars, execVars, wireVars, timeVars, addrVars,
                   txVars>>

Tally_remove(vote) ==
    /\ tally' = Tally_update(tally, vote, "remove").tally
    /\ tallyOp' = TallyResult("remove", Tally_update(tally, vote, "remove").some)
    /\ UNCHANGED occ
    /\ UNCHANGED <<hostVars, rangeVars, cacheVars, execVars, wireVars, timeVars, addrVars,
                   txVars>>

(***************************************************************************)
(* The Host Execution State after HostState::new, and its steps.           *)
(***************************************************************************)
NoOp == Ok("new", 0, 0)

\* the linear memory of the instance wrapper a new external call is given
InstanceWrapper_memory == [i \in 1 .. SupSize |-> 0]

\* a plausible slip: the store of the previous call is handed on
HostState_new_keeping_store ==
    /\ stack = << >> \/ fault
    /\ UNCHANGED <<memories, instances>>
    /\ storeFlag' = 0
    /\ allocated' = {}
    /\ allocFlag' = 0
    /\ supMem' = InstanceWrapper_memory
    /\ stack' = << >>
    /\ fault' = FALSE
    /\ lastOp' = Ok("new", 0, Len(memories) + Len(instances))
    /\ UNCHANGED <<table, notHost>>

\* the external call is over (or was aborted by a panic), its HostState is
\* dropped, and HostState::new builds the state of the next external call;
\* the result records how many slots the dropped store had
HostState_new ==
    /\ stack = << >> \/ fault
    /\ memories' = << >>
    /\ instances' = << >>
    /\ storeFlag' = 0
    /\ allocated' = {}
    /\ allocFlag' = 0
    /\ supMem' = InstanceWrapper_memory
    /\ stack' = << >>
    /\ fault' = FALSE
    /\ lastOp' = Ok("new", 0, Len(memories) + Len(instances))
    /\ UNCHANGED <<table, notHost>>

InitHostState ==
    /\ memories = << >>
    /\ instances = << >>
    /\ allocated = {}
    /\ storeFlag = 0
    /\ allocFlag = 0
    /\ stack = << >>
    /\ fault = FALSE
    /\ lastOp = NoOp

InitRangeIdle ==
    /\ rPc = "idle"
    /\ rOffset = 0
    /\ rLen = 0
    /\ rMax = 0
    /\ rOut = NoRange

InitCacheIdle ==
    /\ codeStorage = [h \in Hashes |-> NoModule]
    /\ pristine = [h \in Hashes |-> << >>]
    /\ cacheOp = NoCacheOp
    /\ held = NoModule
    /\ nIncs = [h \in Hashes |-> 0]
    /\ nDecs = [h \in Hashes |-> 0]

Init ==
    /\ InitHostState
    /\ supMem = [i \in 1 .. SupSize |-> 0]
    /\ table \in {NoTable, SomeTable}
    /\ InitRangeIdle
    /\ InitCacheIdle
    /\ InitExecIdle
    /\ InitWireIdle
    /\ InitTimeIdle
    /\ InitAddrIdle
    /\ InitTxIdle
    /\ InitNumIdle

\* arguments the reentrant specification passes to the memory copies and to invoke
FewWords == {0, PageSize}

Next ==
    \/ \E id \in 0 .. MaxMemories, len \in FewWords : memory_get(id, 0, 0, len)
    \/ \E id \in 0 .. MaxMemories, len \in FewWords : memory_set(id, 0, 0, len)
    \/ \E id \in 0 .. MaxMemories : memory_teardown(id)
    \/ \E initial \in 0 .. MaxPages, maximum \in 0 .. MaxPages :
            memory_new(initial, maximum)
    \/ \E ptr \in AllocPtrs : allocate_memory(ptr)
    \/ \E ptr \in AllocPtrs : deallocate_memory(ptr)
    \/ \E id \in 0 .. Len(TableEntries), env_ok \in BOOLEAN : instance_new(id, env_ok)
    \/ \E outcome \in InstantiateOutcomes : instance_new_return(outcome)
    \/ \E id \in 0 .. MaxInstances : instance_teardown(id)
    \/ \E id \in 0 .. MaxInstances, global \in {0, 1} : get_global_val(id, global)
    \/ \E id \in 0 .. MaxInstances, args_ok \in BOOLEAN, len \in FewWords :
            sandbox_invoke(id, args_ok, SupSize - 1, len)
    \/ \E outcome \in GuestOutcomes : sandbox_invoke_return(outcome)
    \/ \E state \in ThunkStates, idx \in {0, 1} :
            capabilities_invoke(0, PageSize, state, idx)
    \/ \E ret \in ThunkResults, v \in ThunkValues : capabilities_invoke_return(ret, v)

Spec == Init /\ [][Next]_vars

(***************************************************************************)
(* A sequence of external calls, each with the HostState built for it.     *)
(***************************************************************************)
NextCalls ==
    \/ Next
    \/ HostState_new

SpecCalls == Init /\ [][NextCalls]_vars

(***************************************************************************)
(* The memory copies alone, over every content of the supervisor memory.   *)
(***************************************************************************)
InitMem ==
    /\ InitHostState
    /\ supMem \in [1 .. SupSize -> Byte]
    /\ table = NoTable
    /\ InitRangeIdle
    /\ InitCacheIdle
    /\ InitExecIdle
    /\ InitWireIdle
    /\ InitTimeIdle
    /\ InitAddrIdle
    /\ InitTxIdle
    /\ InitNumIdle

NextMem ==
    \/ \E id \in 0 .. MaxMemories, off \in Words, ptr \in Words, len \in Words :
            memory_get(id, off, ptr, len)
    \/ \E id \in 0 .. MaxMemories, off \in Words, ptr \in Words, len \in Words :
            memory_set(id, off, ptr, len)
    \/ \E id \in 0 .. MaxMemories : memory_teardown(id)
    \/ \E initial \in 0 .. MaxPages, maximum \in 0 .. MaxPages :
            memory_new(initial, maximum)

SpecMem == InitMem /\ [][NextMem]_vars

(***************************************************************************)
(* The memory copies while the memories grow.                              *)
(***************************************************************************)
NextGrow ==
    \/ \E id \in 0 .. MaxMemories, off \in Words, ptr \in Words, len \in Words :
            memory_get(id, off, ptr, len)
    \/ \E id \in 0 .. MaxMemories, off \in Words, ptr \in Words, len \in Words :
            memory_set(id, off, ptr, len)
    \/ \E initial \in 0 .. MaxPages, maximum \in 0 .. MaxPages :
            memory_new(initial, maximum)
    \/ supervisor_memory_grow
    \/ \E id \in 0 .. MaxMemories : guest_memory_grow(id)

SpecGrow == InitMem /\ [][NextGrow]_vars

(***************************************************************************)
(* occupied_storage applied to every module.                               *)
(***************************************************************************)
InitOccupied ==
    /\ InitHostState
    /\ supMem = [i \in 1 .. SupSize |-> 0]
    /\ table = NoTable
    /\ InitRangeIdle
    /\ InitCacheIdle
    /\ InitExecIdle
    /\ InitWireIdle
    /\ InitTimeIdle
    /\ InitAddrIdle
    /\ InitTxIdle
    /\ occ = [IdleOcc EXCEPT !.pc = "input"]
    /\ InitTallyIdle

NextOccupied ==
    \/ occupied_storage_call
    \/ \E module \in OccupiedInputs : occupied_next_module(module)

SpecOccupied == InitOccupied /\ [][NextOccupied]_vars

(***************************************************************************)
(* A Tally under every sequence of votes added and removed.                *)
(***************************************************************************)
InitTally ==
    /\ InitHostState
    /\ supMem = [i \in 1 .. SupSize |-> 0]
    /\ table = NoTable
    /\ InitRangeIdle
    /\ InitCacheIdle
    /\ InitExecIdle
    /\ InitWireIdle
    /\ InitTimeIdle
    /\ InitAddrIdle
    /\ InitTxIdle
    /\ InitNumIdle

NextTally ==
    \/ \E aye \in BOOLEAN, conviction \in Convictions, balance \in Balances :
            Tally_new(aye, conviction, balance)
    \/ \E vote \in AccountVotes : Tally_add(vote)
    \/ \E vote \in AccountVotes : Tally_remove(vote)

SpecTally == InitTally /\ [][NextTally]_vars

(***************************************************************************)
(* The memory copies in a store that holds several Guest Memories.         *)
(***************************************************************************)
\* the store after memory_new(1, 1) was called for every handle
InitFrame ==
    /\ memories = [i \in 1 .. (MaxMemories + 1) |->
                      SomeMemory([k \in 1 .. PageSize |-> 0])]
    /\ instances = << >>
    /\ allocated = {}
    /\ storeFlag = 0
    /\ allocFlag = 0
    /\ stack = << >>
    /\ fault = FALSE
    /\ lastOp = Ok("memory_new", 0, MaxMemories)
    /\ supMem \in [1 .. SupSize -> Byte]
    /\ table = NoTable
    /\ InitRangeIdle
    /\ InitCacheIdle
    /\ InitExecIdle
    /\ InitWireIdle
    /\ InitTimeIdle
    /\ InitAddrIdle
    /\ InitTxIdle
    /\ InitNumIdle

\* the offsets, pointers and lengths passed to the copies
FrameWords == {0, 1}
FrameLens == {0, 1, PageSize}

NextFrame ==
    \/ \E id \in 0 .. MaxMemories, off \in FrameWords, ptr \in FrameWords,
          len \in FrameLens :
            memory_get(id, off, ptr, len)
    \/ \E id \in 0 .. MaxMemories, off \in FrameWords, ptr \in FrameWords,
          len \in FrameLens :
            memory_set(id, off, ptr, len)
    \/ \E id \in 0 .. MaxMemories : memory_teardown(id)

SpecFrame == InitFrame /\ [][NextFrame]_vars

(***************************************************************************)
(* The Bounds Checker applied to every triple of usize values.             *)
(***************************************************************************)
InitRange ==
    /\ InitHostState
    /\ supMem = [i \in 1 .. SupSize |-> 0]
    /\ table = NoTable
    /\ InitCacheIdle
    /\ InitExecIdle
    /\ InitWireIdle
    /\ InitTimeIdle
    /\ InitAddrIdle
    /\ InitTxIdle
    /\ InitNumIdle
    /\ rPc = "input"
    /\ rOffset \in Usize
    /\ rLen \in Usize
    /\ rMax \in Usize
    /\ rOut = NoRange

range_check ==
    /\ rPc = "input"
    /\ rOut' = checked_range(rOffset, rLen, rMax)
    /\ rPc' = "done"
    /\ UNCHANGED <<rOffset, rLen, rMax, hostVars, otherVars, cacheVars, execVars>>

range_next_input(offset, len, max) ==
    /\ rPc = "done"
    /\ rPc' = "input"
    /\ rOffset' = offset
    /\ rLen' = len
    /\ rMax' = max
    /\ rOut' = NoRange
    /\ UNCHANGED <<hostVars, otherVars, cacheVars, execVars>>

NextRange ==
    \/ range_check
    \/ \E offset \in Usize, len \in Usize, max \in Usize :
            range_next_input(offset, len, max)

SpecRange == InitRange /\ [][NextRange]_vars

(***************************************************************************)
(* The Module Cache driven through PrefabWasmModule.                       *)
(***************************************************************************)
InitCache ==
    /\ InitHostState
    /\ supMem = [i \in 1 .. SupSize |-> 0]
    /\ table = NoTable
    /\ InitRangeIdle
    /\ InitCacheIdle
    /\ InitExecIdle
    /\ InitWireIdle
    /\ InitTimeIdle
    /\ InitAddrIdle
    /\ InitTxIdle
    /\ InitNumIdle

NextCache ==
    \/ \E code \in Codes \union {InvalidCode}, version \in Schedules :
            from_code(code, version)
    \/ \E h \in Hashes, version \in Schedules : from_storage(h, version)
    \/ \E h \in Hashes : from_storage_noinstr(h)
    \/ execute_store
    \/ drop_from_storage
    \/ \E h \in Hashes : add_user(h)
    \/ \E h \in Hashes : remove_user(h)

SpecCache == InitCache /\ [][NextCache]_vars

(***************************************************************************)
(* Executions of contracts against the environment.                        *)
(***************************************************************************)
InitExec ==
    /\ InitHostState
    /\ supMem = [i \in 1 .. SupSize |-> 0]
    /\ table = NoTable
    /\ InitRangeIdle
    /\ InitCacheIdle
    /\ InitExecIdle
    /\ InitWireIdle
    /\ InitTimeIdle
    /\ InitAddrIdle
    /\ InitTxIdle
    /\ InitNumIdle

ExecCodes == {<<1>>}

NextExec ==
    \/ \E code \in ExecCodes : from_code(code, 1)
    \/ \E function \in {"Call", "Constructor"} : execute_start(function)
    \/ \E function \in {"Call", "Constructor"}, initial \in 0 .. MaxPages,
          maximum \in 0 .. MaxPages :
            execute_memory_fails(function, initial, maximum)
    \/ \E a \in AccountArgs, v \in ValueArgs : seal_transfer(a[1], a[2], v[1], v[2])
    \/ \E t \in TopicsArgs, d \in DataArgs,
          err \in {"", "OutOfBounds", "DecodingFailed", "TooManyTopics",
                   "DuplicateTopics"} :
            seal_deposit_event(t[1], t[2], d[1], d[2], err)
    \/ \E b \in AccountArgs : seal_terminate(b[1], b[2])
    \/ \E flags \in ReturnFlagValues, d \in DataArgs : seal_return(flags, d[1], d[2])
    \/ \E sandbox_ok \in BOOLEAN : contract_ends(sandbox_ok)

SpecExec == InitExec /\ [][NextExec]_vars

(***************************************************************************)
(* The wire format applied to every argument vector.                       *)
(***************************************************************************)
InitWire ==
    /\ InitHostState
    /\ supMem = [i \in 1 .. SupSize |-> 0]
    /\ table = NoTable
    /\ InitRangeIdle
    /\ InitCacheIdle
    /\ InitExecIdle
    /\ wire \in {[IdleWire EXCEPT !.pc = "values", !.values = vs] : vs \in ArgVectors}
    /\ InitTimeIdle
    /\ InitAddrIdle
    /\ InitTxIdle
    /\ InitNumIdle

NextWire ==
    \/ wire_encode
    \/ wire_truncate
    \/ wire_invoke

SpecWire == InitWire /\ [][NextWire]_vars

(***************************************************************************)
(* The Timestamp pallet over a few blocks.                                 *)
(***************************************************************************)
InitTime ==
    /\ InitHostState
    /\ supMem = [i \in 1 .. SupSize |-> 0]
    /\ table = NoTable
    /\ InitRangeIdle
    /\ InitCacheIdle
    /\ InitExecIdle
    /\ InitWireIdle
    /\ InitTimeIdle
    /\ InitAddrIdle
    /\ InitTxIdle
    /\ InitNumIdle

NextTime ==
    \/ on_initialize
    \/ \E origin \in Origins, now \in Moments, overflow_checks \in BOOLEAN :
            timestamp_set(origin, now, overflow_checks)
    \/ on_finalize

SpecTime == InitTime /\ [][NextTime]_vars

(***************************************************************************)
(* The AddrCache under every sequence of insert and retain_ids.            *)
(***************************************************************************)
InitAddr ==
    /\ InitHostState
    /\ supMem = [i \in 1 .. SupSize |-> 0]
    /\ table = NoTable
    /\ InitRangeIdle
    /\ InitCacheIdle
    /\ InitExecIdle
    /\ InitWireIdle
    /\ InitTimeIdle
    /\ InitAddrIdle
    /\ InitTxIdle
    /\ InitNumIdle

NextAddr ==
    \/ \E authority_id \in Authorities, addresses \in AddressVecs :
            AddrCache_insert(authority_id, addresses)
    \/ \E authority_ids \in SUBSET Authorities, debug_assertions \in BOOLEAN,
             order \in AuthorityOrders :
            AddrCache_retain_ids(authority_ids, order, debug_assertions)

SpecAddr == InitAddr /\ [][NextAddr]_vars

(***************************************************************************)
(* Storage writes under nested transactions.                               *)
(***************************************************************************)
InitTx ==
    /\ InitHostState
    /\ supMem = [i \in 1 .. SupSize |-> 0]
    /\ table = NoTable
    /\ InitRangeIdle
    /\ InitCacheIdle
    /\ InitExecIdle
    /\ InitWireIdle
    /\ InitTimeIdle
    /\ InitAddrIdle
    /\ InitTxIdle
    /\ InitNumIdle

NextTx ==
    \/ \E key \in StorageKeys, value \in StorageValues : storage_put(key, value)
    \/ \E debug_helper \in BOOLEAN : require_transaction(debug_helper)
    \/ with_transaction
    \/ \E outcome \in {"Commit", "Rollback"} : with_transaction_return(outcome)

SpecTx == InitTx /\ [][NextTx]_vars

(***************************************************************************)
(* C1: nothing is held across a reentry.  Every state of the model is a    *)
(* point where guest code runs (the outer guest, a nested guest inside     *)
(* instantiate or invoke, or the dispatch thunk) and may re-enter the      *)
(* dispatcher: there neither the Sandbox Store nor the allocator is        *)
(* borrowed, and no borrow has ever met a conflicting one (no panic).      *)
(***************************************************************************)
C1_NoAccessHeldAcrossReentry ==
    /\ storeFlag = 0
    /\ allocFlag = 0
    /\ ~fault

\* an instance was torn down (exclusive access) by a host call issued from the
\* dispatch thunk while the invoke that runs it is still on the stack
C1_Witness ==
    /\ Len(stack) = 2
    /\ stack[1].kind = "invoke"
    /\ stack[2].kind = "thunk"
    /\ ~instances[stack[1].inst + 1].live
    /\ lastOp.op = "instance_teardown"
    /\ lastOp.ok

(***************************************************************************)
(* C3: the Bounds Checker answers Some(offset .. offset + len) exactly     *)
(* when offset + len fits in usize and is at most the capacity, and None   *)
(* otherwise; len = 0 and offset + len = capacity are accepted.            *)
(***************************************************************************)
C3_BoundsCheckerIff ==
    rPc = "done" =>
        /\ rOut.some <=> (rOffset + rLen < UsizeLimit /\ rOffset + rLen <= rMax)
        /\ rOut.some => (rOut.start = rOffset /\ rOut.end = rOffset + rLen)
        /\ (rLen = 0 /\ rOffset <= rMax) => rOut.some
        /\ (rOffset + rLen = rMax) => rOut.some

\* a range that ends exactly at the capacity was accepted, and one whose end
\* does not fit in usize was refused
C3_Witness ==
    /\ rPc = "done"
    /\ rOut.some
    /\ rLen > 0
    /\ rOffset + rLen = rMax

(***************************************************************************)
(* C4: memory_get and memory_set on a live memory handle whose guest range *)
(* or supervisor range is out of bounds return ERR_OUT_OF_BOUNDS as an     *)
(* Ok value, without a panic, and leave both memories as they were.        *)
(***************************************************************************)
OutOfBoundsArgs(id, off, ptr, len) ==
    /\ MemoryLookupErr(id) = ""
    /\ \/ off + len > Len(memories[id + 1].bytes)
       \/ ptr + len > Len(supMem)

\* the step is the copy recorded in lastOp', and its arguments were out of bounds
OutOfBoundsCopyStep ==
    /\ lastOp'.op \in {"memory_get", "memory_set"}
    /\ OutOfBoundsArgs(lastOp'.id, lastOp'.off, lastOp'.ptr, lastOp'.len)
    /\ \/ memory_get(lastOp'.id, lastOp'.off, lastOp'.ptr, lastOp'.len)
       \/ memory_set(lastOp'.id, lastOp'.off, lastOp'.ptr, lastOp'.len)

\* the step is an out-of-bounds copy that panicked
OutOfBoundsCopyPanics ==
    /\ fault'
    /\ \E id \in 0 .. MaxMemories, off \in Words, ptr \in Words, len \in Words :
          /\ OutOfBoundsArgs(id, off, ptr, len)
          /\ \/ memory_get(id, off, ptr, len)
             \/ memory_set(id, off, ptr, len)

C4_OutOfBoundsIsStatus ==
    [][/\ ~OutOfBoundsCopyPanics
       /\ OutOfBoundsCopyStep
            => /\ lastOp'.ok
               /\ lastOp'.val = ERR_OUT_OF_BOUNDS
               /\ supMem' = supMem
               /\ memories' = memories]_vars

\* an out-of-bounds copy was answered while a Guest Memory holds a nonzero byte
C4_Witness ==
    /\ lastOp.op \in {"memory_get", "memory_set"}
    /\ lastOp.ok
    /\ lastOp.val = ERR_OUT_OF_BOUNDS
    /\ OutOfBoundsArgs(lastOp.id, lastOp.off, lastOp.ptr, lastOp.len)
    /\ 1 \in {memories[lastOp.id + 1].bytes[k] :
                k \in 1 .. Len(memories[lastOp.id + 1].bytes)}

(***************************************************************************)
(* C5: after a memory_set that returned ERR_OK, a memory_get of the same   *)
(* handle, offset and length into an in-bounds supervisor buffer returns   *)
(* ERR_OK and delivers exactly the bytes that were written (also for a     *)
(* length of 0).                                                           *)
(***************************************************************************)
C5_SetThenGetRoundTrip ==
    [][(/\ lastOp.op = "memory_set"
        /\ lastOp.ok
        /\ lastOp.val = ERR_OK
        /\ \E ptr \in Words :
              /\ ptr + lastOp.len <= Len(supMem)
              /\ memory_get(lastOp.id, lastOp.off, ptr, lastOp.len))
       => /\ lastOp'.ok
          /\ lastOp'.val = ERR_OK
          /\ Slice(supMem', lastOp'.ptr, lastOp'.ptr + lastOp.len)
               = Slice(supMem, lastOp.ptr, lastOp.ptr + lastOp.len)]_vars

\* memory_get read back a whole page holding a nonzero byte: Guest Memory starts
\* zeroed, so a memory_set wrote it
C5_Witness ==
    /\ lastOp.op = "memory_get"
    /\ lastOp.ok
    /\ lastOp.val = ERR_OK
    /\ lastOp.len = PageSize
    /\ 1 \in {supMem[lastOp.ptr + k] : k \in 1 .. lastOp.len}

(***************************************************************************)
(* C6: a successful instance_new returns a handle that no live instance    *)
(* has, registers the new instance under it and leaves every slot that     *)
(* existed before as it was.                                               *)
(***************************************************************************)
LiveInstances(insts) == {h \in 0 .. (Len(insts) - 1) : insts[h + 1].live}

C6_NewHandleIsNotLive ==
    [][(instance_new_return("instance") /\ ~fault')
       => /\ lastOp'.ok
          /\ lastOp'.val \notin LiveInstances(instances)
          /\ LiveInstances(instances') = LiveInstances(instances) \union {lastOp'.val}
          /\ Cardinality(LiveInstances(instances'))
               = Cardinality(LiveInstances(instances)) + 1]_vars

\* a second instance was registered while the first is still live
C6_Witness ==
    /\ lastOp.op = "instance_new"
    /\ lastOp.ok
    /\ lastOp.val = 1
    /\ LiveInstances(instances) = {0, 1}

(***************************************************************************)
(* C7: a torn-down instance stays torn down.  For a handle whose slot has  *)
(* been emptied by instance_teardown, every step keeps the slot empty, and *)
(* invoke, get_global_val and instance_teardown on it return an error and  *)
(* change nothing.                                                         *)
(***************************************************************************)
TornDown(insts) == {h \in 0 .. (Len(insts) - 1) : ~insts[h + 1].live}

C7_TornDownIsFinal ==
    [][\A h \in TornDown(instances) :
         /\ fault' \/ h \in TornDown(instances')
         /\ (\/ \E args_ok \in BOOLEAN, ptr \in Words, len \in Words :
                    sandbox_invoke(h, args_ok, ptr, len)
             \/ \E global \in {0, 1} : get_global_val(h, global)
             \/ instance_teardown(h))
            => /\ ~lastOp'.ok
               /\ lastOp'.op \in {"invoke", "get_global_val", "instance_teardown"}
               /\ lastOp'.id = h
               /\ instances' = instances
               /\ stack' = stack]_vars

\* an invoke on a torn-down handle failed after a later instance_new succeeded
C7_Witness ==
    /\ lastOp.op = "invoke"
    /\ ~lastOp.ok
    /\ lastOp.err = "Trying to access a torndown instance"
    /\ lastOp.id = 0
    /\ LiveInstances(instances) = {1}

(***************************************************************************)
(* C8 as stated: after storing a module freshly produced by from_code, an  *)
(* immediately following load of its hash with the same schedule succeeds, *)
(* returns the stored module's instrumented bytes and a reference count of *)
(* 1.                                                                      *)
(***************************************************************************)
StoreThenLoad ==
    /\ cacheOp.op = "store"
    /\ cacheOp.fresh
    /\ cacheOp'.op = "load"
    /\ cacheOp'.hash = cacheOp.hash
    /\ cacheOp'.sched = cacheOp.sched

C8_FreshStoreLoadsWithCountOne ==
    [][StoreThenLoad =>
          /\ cacheOp'.ok
          /\ cacheOp'.code = cacheOp.code
          /\ cacheOp'.refcount = 1]_vars

(***************************************************************************)
(* C8 amended: when the cache holds no module under hash(code) at the time *)
(* of the store, storing a module freshly produced by from_code and then   *)
(* loading its hash with the same schedule succeeds, returns the stored    *)
(* module's instrumented bytes and a reference count of 1.  (When the hash *)
(* is already stored, the store counts one more user instead.)             *)
(***************************************************************************)
C8_FirstStoreLoadsWithCountOne ==
    [][(StoreThenLoad /\ cacheOp.inserted) =>
          /\ cacheOp'.ok
          /\ cacheOp'.code = cacheOp.code
          /\ cacheOp'.code = instrument(pristine[cacheOp.hash], cacheOp.sched)
          /\ cacheOp'.refcount = 1]_vars

\* a load that followed the first store of a fresh module, with its schedule
C8_Witness ==
    /\ cacheOp.op = "load"
    /\ cacheOp.sched > 0
    /\ cacheOp.ok
    /\ cacheOp.refcount = 1
    /\ nIncs[cacheOp.hash] = 1
    /\ nDecs[cacheOp.hash] = 0
    /\ cacheOp.version = cacheOp.sched
    /\ cacheOp.code = instrument(pristine[cacheOp.hash], cacheOp.sched)

(***************************************************************************)
(* C9: a module is in the cache exactly while the increments of its        *)
(* reference count (the stores and the successful increment_refcount       *)
(* calls) outnumber the decrements applied to it, and a load succeeds      *)
(* exactly then, failing with not-found otherwise.  In particular, after a *)
(* fresh store, one increment and two decrements the load fails with       *)
(* not-found.                                                              *)
(***************************************************************************)
Loadable(h) == nIncs[h] > nDecs[h]

C10_OutOfTableIsModuleError ==
    [][\A id \in 0 .. Len(TableEntries), env_ok \in BOOLEAN :
         (table.present /\ id >= Len(table.entries) /\ instance_new(id, env_ok))
         => /\ lastOp'.ok
            /\ lastOp'.val = ERR_MODULE
            /\ instances' = instances]_vars

(***************************************************************************)
(* C10 amended: such an instance_new returns the error                     *)
(* "dispatch_thunk_id is out of bounds" (an Err, not a status code); it    *)
(* does not panic, enters no guest code and registers no instance.         *)
(***************************************************************************)
C10_OutOfTableIsError ==
    [][\A id \in 0 .. Len(TableEntries), env_ok \in BOOLEAN :
         (table.present /\ id >= Len(table.entries) /\ instance_new(id, env_ok))
         => /\ ~lastOp'.ok
            /\ lastOp'.op = "instance_new"
            /\ lastOp'.err = "dispatch_thunk_id is out of bounds"
            /\ ~fault'
            /\ instances' = instances
            /\ stack' = stack]_vars

\* instance_new was called with an index past the table
C10_Witness ==
    /\ table.present
    /\ lastOp.op = "instance_new"
    /\ lastOp.id >= Len(table.entries)
    /\ ~lastOp.ok

(***************************************************************************)
(* C11: when the environment definition cannot be decoded, instance_new    *)
(* returns the module-error code as an Ok value: no fault, no guest code   *)
(* entered (the call stack is as before), no instance registered and the   *)
(* Sandbox Store unchanged.                                                *)
(***************************************************************************)
C11_DecodeFailureIsModuleError ==
    [][\A id \in 0 .. (Len(TableEntries) - 1) :
          (/\ SupervisorRuns
           /\ table.present
           /\ dispatch_thunk_err(id) = ""
           /\ instance_new(id, FALSE))
          => /\ lastOp' = Ok("instance_new", id, ERR_MODULE)
             /\ ~fault'
             /\ stack' = stack
             /\ instances' = instances
             /\ memories' = memories
             /\ storeFlag' = storeFlag]_vars

\* a decode failure when the store is as full as the model lets it get, so
\* that no instantiation could have been started
C11_Witness ==
    /\ Len(instances) = MaxInstances
    /\ lastOp = Ok("instance_new", 0, ERR_MODULE)
    /\ ~fault

(***************************************************************************)
(* C12: a failed guest instantiation makes instance_new return a status    *)
(* code as an Ok value and register no instance; the code is the           *)
(* execution-error code exactly for a trap in the start function and the   *)
(* module-error code exactly for every other failure.                      *)
(***************************************************************************)
C12_InstantiateFailureCodes ==
    [][\A outcome \in InstantiateOutcomes \ {"instance"} :
          (GuestRuns /\ instance_new_return(outcome))
          => /\ lastOp'.ok
             /\ lastOp'.op = "instance_new"
             /\ lastOp'.val = ERR_EXECUTION <=> outcome = "start_trapped"
             /\ lastOp'.val = ERR_MODULE <=> outcome # "start_trapped"
             /\ instances' = instances
             /\ ~fault']_vars

\* a start trap was reported while no instance exists
C12_Witness ==
    /\ lastOp = Ok("instance_new", 0, ERR_EXECUTION)
    /\ instances = << >>
    /\ ~fault

(***************************************************************************)
(* C13: when the guest function run by sandbox invoke fails, invoke        *)
(* returns the execution-error code as an Ok value, without a fault and    *)
(* without writing to supervisor memory.                                   *)
(***************************************************************************)
C13_GuestFailureIsExecutionError ==
    [][(GuestRuns /\ sandbox_invoke_return([kind |-> "err", enc |-> << >>]))
          => /\ lastOp' = Ok("invoke", Top.inst, ERR_EXECUTION)
             /\ supMem' = supMem
             /\ stack' = Pop
             /\ ~fault']_vars

\* an invoke of a live instance ended with the execution-error code
C13_Witness ==
    /\ lastOp = Ok("invoke", 0, ERR_EXECUTION)
    /\ ~fault

(***************************************************************************)
(* C14: when the encoded return value is longer than return_val_len,       *)
(* sandbox invoke fails with the error "Return value buffer is too small", *)
(* which is neither a status code nor the memory-write error, and          *)
(* supervisor memory is not written.                                       *)
(***************************************************************************)
C14_SmallBufferIsDistinctError ==
    [][\A enc \in ReturnEncodings :
          (/\ GuestRuns
           /\ Top.kind = "invoke"
           /\ Len(enc) > Top.len
           /\ sandbox_invoke_return([kind |-> "some", enc |-> enc]))
          => /\ ~lastOp'.ok
             /\ lastOp'.err = "Return value buffer is too small"
             /\ lastOp'.err # "can't write return value"
             /\ supMem' = supMem
             /\ ~fault']_vars

\* an invoke whose return value did not fit the buffer
C14_Witness ==
    /\ lastOp.op = "invoke"
    /\ ~lastOp.ok
    /\ lastOp.err = "Return value buffer is too small"
    /\ \A i \in 1 .. SupSize : supMem[i] = 0

(***************************************************************************)
(* C15: the dispatch thunk is called with exactly four arguments           *)
(* (arguments pointer, arguments length, state token, function index), and *)
(* the reentrant dispatch returns Ok(v) exactly when the thunk gave back   *)
(* one 64-bit value v; no value, two values, a 32-bit value or a trap give *)
(* an error.                                                               *)
(***************************************************************************)
C15_DispatchReturnsOnlyOneI64 ==
    [][/\ \A i \in 1 .. Len(stack') :
             stack'[i].kind = "thunk"
             => /\ Len(stack'[i].args) = 4
                /\ stack'[i].args[1] = stack'[i].ptr
                /\ stack'[i].args[2] = stack'[i].len
                /\ stack'[i].args[3] \in ThunkStates
                /\ stack'[i].args[4] = stack'[i].inst
       /\ \A ret \in ThunkResults, v \in ThunkValues :
             (stack # << >> /\ capabilities_invoke_return(ret, v))
             => /\ lastOp'.op = "dispatch"
                /\ lastOp'.ok <=> ret = "i64"
                /\ lastOp'.ok => lastOp'.val = v
                /\ ~lastOp'.ok => lastOp'.val = 0]_vars

\* the thunk gave back the 64-bit value 1 and the dispatch returned it
C15_Witness ==
    /\ lastOp.op = "dispatch"
    /\ lastOp.ok
    /\ lastOp.val = 1

(***************************************************************************)
(* C16: when the contract ends with an explicit return of (flags, data),   *)
(* execute yields a successful result carrying exactly that data; its      *)
(* revert flag is set exactly when the contract passed the revert flag,    *)
(* and is_success() holds exactly when it is not set.                      *)
(***************************************************************************)
ReturnedExplicitly ==
    /\ run.pc = "done"
    /\ run.last.fn = "seal_return"
    /\ run.last.args[2] + run.last.args[3] <= Len(run.mem)

C16_ExplicitReturnKeepsDataAndFlag ==
    ReturnedExplicitly
    => /\ run.result.ok
       /\ run.result.data = SubSeq(run.mem, run.last.args[2] + 1,
                                   run.last.args[2] + run.last.args[3])
       /\ run.result.flags = REVERT <=> run.last.args[1] = REVERT
       /\ is_success(run.result) <=> run.last.args[1] # REVERT

\* the balance segment was returned with the revert flag
C16_Witness ==
    /\ ReturnedExplicitly
    /\ run.result = ExecOk(REVERT, <<TransferValue, 0>> \o [i \in 1 .. (ValueLen - 2) |-> 0])
    /\ ~is_success(run.result)

(***************************************************************************)
(* C17: an execution whose only host call is one transfer of value v to    *)
(* destination d has recorded exactly one transfer, to d of value v, and   *)
(* nothing else; with the scenario's segments that is one transfer of 153  *)
(* to ALICE.                                                               *)
(***************************************************************************)
SingleTransfer ==
    /\ run.pc # "idle"
    /\ run.ncalls = 1
    /\ run.last.fn = "seal_transfer"
    /\ run.last.args[1] + run.last.args[2] <= Len(run.mem)
    /\ run.last.args[2] >= AccountLen
    /\ run.last.args[3] + run.last.args[4] <= Len(run.mem)
    /\ run.last.args[4] >= ValueLen

C17_SingleTransferRecordedOnce ==
    /\ SingleTransfer
       => /\ Len(ext.transfers) = 1
          /\ ext.transfers[1].to = SubSeq(run.mem, run.last.args[1] + 1,
                                          run.last.args[1] + AccountLen)
          /\ ext.transfers[1].value =
                LittleEndian(SubSeq(run.mem, run.last.args[3] + 1,
                                    run.last.args[3] + ValueLen))
          /\ ext.transfers[1].data = << >>
          /\ ext.events = << >>
          /\ ext.terminations = << >>
    /\ (SingleTransfer /\ run.last.args = <<AccountPtr, AccountLen, ValuePtr, ValueLen>>)
       => ext.transfers = <<[to |-> ALICE, value |-> 153, data |-> << >>]>>

\* the scenario's contract has run to its end
C17_Witness ==
    /\ run.pc = "done"
    /\ run.result.ok
    /\ run.ncalls = 1
    /\ run.last = [fn |-> "seal_transfer",
                   args |-> <<AccountPtr, AccountLen, ValuePtr, ValueLen>>]
    /\ ext.transfers = <<[to |-> ALICE, value |-> 153, data |-> << >>]>>

(***************************************************************************)
(* C18: a deposit-event call whose topic list is longer than the           *)
(* configured maximum ends the execution with the TooManyTopics error, and *)
(* one whose topic list has a duplicate with the DuplicateTopics error (a  *)
(* list that is both gets one of the two); the error's origin is the       *)
(* caller and no event is recorded.                                        *)
(***************************************************************************)
DepositEventStep ==
    /\ run.pc = "running"
    /\ run'.ncalls = run.ncalls + 1
    /\ run'.last.fn = "seal_deposit_event"
    /\ run'.last.args[1] + run'.last.args[2] <= Len(run.mem)
    /\ decode_topics(SubSeq(run.mem, run'.last.args[1] + 1,
                            run'.last.args[1] + run'.last.args[2])).err = ""

DepositedTopics ==
    decode_topics(SubSeq(run.mem, run'.last.args[1] + 1,
                         run'.last.args[1] + run'.last.args[2])).val

TopicsTooMany == Len(DepositedTopics) > EventTopics
TopicsRepeat ==
    Cardinality({DepositedTopics[i] : i \in 1 .. Len(DepositedTopics)})
        < Len(DepositedTopics)

AccountCallStep ==
    /\ run.pc = "running"
    /\ run'.ncalls = run.ncalls + 1
    /\ run'.last.fn \in {"seal_terminate", "seal_transfer"}

C19_BadArgumentFailsTheCall ==
    [][AccountCallStep
          => /\ run'.last.args[1] + run'.last.args[2] > Len(run.mem)
                => /\ run'.pc = "done"
                   /\ run'.result = ExecErr("OutOfBounds", "Caller")
                   /\ ext' = ext
             /\ (/\ run'.last.args[1] + run'.last.args[2] <= Len(run.mem)
                 /\ run'.last.args[2] < AccountLen)
                => /\ run'.pc = "done"
                   /\ run'.result = ExecErr("DecodingFailed", "Caller")
                   /\ ext' = ext]_vars

\* a termination with an account outside the memory was refused
C19_Witness ==
    /\ run.pc = "done"
    /\ run.last = [fn |-> "seal_terminate", args |-> OutsideArgs]
    /\ run.result = ExecErr("OutOfBounds", "Caller")
    /\ ext.terminations = << >>

(***************************************************************************)
(* C20: load and increment_refcount on a hash that has no entry fail with  *)
(* the not-found error, which an instrumentation failure never gives, and  *)
(* leave the module table and the original-code side table unchanged.      *)
(***************************************************************************)
C20_MissingHashIsNotFound ==
    [][/\ \A h \in Hashes :
             (/\ ~codeStorage[h].present
              /\ \/ \E version \in Schedules : from_storage(h, version)
                 \/ from_storage_noinstr(h)
                 \/ add_user(h))
             => /\ ~cacheOp'.ok
                /\ cacheOp'.hash = h
                /\ cacheOp'.err = "CodeNotFound"
                /\ codeStorage' = codeStorage
                /\ pristine' = pristine
       /\ \A version \in Schedules :
             from_code(InvalidCode, version)
             => /\ ~cacheOp'.ok
                /\ cacheOp'.err # "CodeNotFound"]_vars

\* an increment of a hash that was evicted failed and created no entry
C20_Witness ==
    /\ cacheOp.op = "increment_refcount"
    /\ ~cacheOp.ok
    /\ cacheOp.err = "CodeNotFound"
    /\ ~codeStorage[cacheOp.hash].present
    /\ pristine[cacheOp.hash] = << >>
    /\ nDecs[cacheOp.hash] > 0

C22_WireRoundTrip ==
    (wire.pc = "decoded" /\ ~wire.cut)
    => /\ wire.args.err = ""
       /\ Len(wire.args.val) = Len(wire.values)
       /\ \A i \in 1 .. Len(wire.values) :
             /\ wire.args.val[i].tag = wire.values[i].tag
             /\ wire.args.val[i].val = wire.values[i].val

\* a mixed vector, a negative i32 and the largest i64, came through
C22_Witness ==
    /\ wire.pc = "decoded"
    /\ ~wire.cut
    /\ wire.values = <<WasmValue("I32", -1), WasmValue("I64", ((256 ^ I64Len) \div 2) - 1)>>
    /\ wire.bytes = <<8, 0, 255, 1>> \o [i \in 1 .. I64Len |-> IF i = I64Len THEN 127 ELSE 255]
    /\ wire.args.val = wire.values

(***************************************************************************)
(* C23: within one block the timestamp is set at most once: after a        *)
(* successful set, a second set before on_finalize panics with 'Timestamp  *)
(* must be updated only once in the block' and leaves the stored time      *)
(* unchanged.                                                              *)
(***************************************************************************)
C23_SecondSetPanics ==
    /\ [](setsInBlock <= 1)
    /\ [][\A now \in Moments, overflow_checks \in BOOLEAN :
            (setsInBlock >= 1 /\ timestamp_set("None", now, overflow_checks))
            => /\ timeOp'.outcome = "panic"
               /\ timeOp'.msg = "Timestamp must be updated only once in the block"
               /\ Now' = Now
               /\ DidUpdate' = DidUpdate
               /\ setsInBlock' = setsInBlock]_vars

\* a set after the block's set panicked
C23_Witness ==
    /\ setsInBlock = 1
    /\ timeOp.op = "set"
    /\ timeOp.outcome = "panic"
    /\ timeOp.msg = "Timestamp must be updated only once in the block"
    /\ Now # timeOp.now

(***************************************************************************)
(* C24: the timestamp must be set in each block: on_finalize panics unless *)
(* set succeeded earlier in the same block, and on success clears the      *)
(* did-update flag, so every block that finalizes had exactly one set and  *)
(* the next block starts with set enabled.                                 *)
(***************************************************************************)
C24_EveryBlockSetsOnce ==
    /\ [](blockPhase = "between" => ~DidUpdate)
    /\ [][on_finalize
            => IF setsInBlock = 0
               THEN /\ timeOp'.outcome = "panic"
                    /\ timeOp'.msg = "Timestamp must be updated once in the block"
               ELSE /\ setsInBlock = 1
                    /\ timeOp'.outcome = "ok"
                    /\ ~DidUpdate'
                    /\ Now' = Now]_vars

\* the second block was finalized after its set, the first one before it
C24_Witness ==
    /\ blockNumber = 2
    /\ blockPhase = "between"
    /\ timeOp = TimeResult("on_finalize", 0, "ok", "")
    /\ setsInBlock = 1
    /\ ~DidUpdate
    /\ Now = MinimumPeriod + 1

(***************************************************************************)
(* C25: set(now) succeeds only if the previous timestamp is zero or        *)
(* now >= previous + MinimumPeriod, and otherwise panics leaving the       *)
(* stored time and the did-update flag unchanged; so the stored time       *)
(* never decreases.  The sum is the sum of the numbers, not of the         *)
(* Moment's width.                                                         *)
(***************************************************************************)
C25_SetNeverDecreasesTime ==
    /\ [][Now' >= Now]_vars
    /\ [][\A now \in Moments, overflow_checks \in BOOLEAN :
            timestamp_set("None", now, overflow_checks)
            => IF ~DidUpdate /\ (Now = 0 \/ now >= Now + MinimumPeriod)
               THEN timeOp'.outcome = "ok" /\ Now' = now
               ELSE /\ timeOp'.outcome = "panic"
                    /\ Now' = Now
                    /\ DidUpdate' = DidUpdate]_vars

(***************************************************************************)
(* C26: after retain_ids(ids) on a cache reached by any inserts and        *)
(* retain_ids, get_addresses_by_authority_id returns None for every        *)
(* authority outside ids and get_authority_id_by_peer_id returns no        *)
(* authority outside ids.                                                  *)
(***************************************************************************)
C26_RetainLeavesOnlyGivenIds ==
    [][(addrOp'.op = "retain_ids" /\ addrOp'.outcome = "ok")
          => /\ \A a \in Authorities \ addrOp'.ids :
                   get_addresses_by_authority_id(a)' = << >>
             /\ \A q \in Peers :
                   get_authority_id_by_peer_id(q)' \notin (Authorities \ addrOp'.ids)]_vars

(***************************************************************************)
(* C27: with_transaction discards every storage change its function made   *)
(* when the function returns Rollback and keeps them when it returns       *)
(* Commit; an inner Commit changes only the parent transaction, never the  *)
(* committed storage, so an enclosing Rollback still discards it.          *)
(***************************************************************************)
C27_RollbackDiscardsCommitKeeps ==
    [][/\ with_transaction_return("Rollback")
          => StorageView(txBase, txLayers)' = txFrames[Len(txFrames)].entry
       /\ with_transaction_return("Commit")
          => /\ StorageView(txBase, txLayers)' = StorageView(txBase, txLayers)
             /\ Len(txFrames) > 1 => txBase' = txBase]_vars

\* an outer transaction rolled back what an inner transaction had committed
C27_Witness ==
    /\ txOp = TxResult("with_transaction_return", "Rollback", 1, TRUE)
    /\ txFrames = << >>
    /\ txLayers = << >>
    /\ txBase = [k \in StorageKeys |-> 0]

C29_StoredBeforeConstructorRuns ==
    /\ []((run.pc = "running" /\ run.function = "Constructor")
             => codeStorage[run.code_hash].present)
    /\ [][/\ execute_start("Constructor")
             => /\ codeStorage'[held.code_hash].present
                /\ cacheOp'.op = "store"
                /\ cacheOp'.hash = held.code_hash
                /\ run'.ncalls = 0
          /\ execute_start("Call")
             => /\ codeStorage' = codeStorage
                /\ pristine' = pristine
                /\ cacheOp' = cacheOp]_vars

\* the constructor of a fresh module is about to run; the module is stored
C29_Witness ==
    /\ run.pc = "running"
    /\ run.function = "Constructor"
    /\ run.ncalls = 0
    /\ cacheOp.op = "store"
    /\ cacheOp.inserted
    /\ cacheOp.hash = run.code_hash
    /\ codeStorage[run.code_hash].present
    /\ codeStorage[run.code_hash].refcount = 1

(***************************************************************************)
(* C30: load(hash, None) returns the stored module as it is and changes    *)
(* nothing: no re-instrumentation, and the module table and the            *)
(* original-code side table are the same before and after, also when the   *)
(* stored schedule version is older than the current one.                  *)
(***************************************************************************)
C30_LoadWithoutScheduleIsPure ==
    [][\A h \in Hashes :
          from_storage_noinstr(h)
          => /\ codeStorage' = codeStorage
             /\ pristine' = pristine
             /\ codeStorage[h].present
                => /\ cacheOp'.ok
                   /\ held'.present
                   /\ held'.code = codeStorage[h].code
                   /\ held'.schedule_version = codeStorage[h].schedule_version
                   /\ held'.refcount = codeStorage[h].refcount
                   /\ held'.code_hash = h
                   /\ held'.original_code = << >>]_vars

\* a module stored under the oldest schedule was loaded without a schedule
C30_Witness ==
    /\ cacheOp.op = "load"
    /\ cacheOp.ok
    /\ cacheOp.sched = 0
    /\ held.present
    /\ held.schedule_version < MaxSchedule
    /\ codeStorage[held.code_hash].schedule_version = held.schedule_version
    /\ codeStorage[held.code_hash].code = held.code

(***************************************************************************)
(* C31: load(hash, Some(schedule)) of a module stored under an older       *)
(* schedule version re-instruments from the original code and persists:    *)
(* the returned and the stored module carry the new version, the key, the  *)
(* original code length and the reference count are as before; a load      *)
(* with a schedule that is not newer re-instruments nothing.               *)
(***************************************************************************)
C31_LoadReinstrumentsOnce ==
    [][\A h \in Hashes, version \in Schedules :
          (from_storage(h, version) /\ codeStorage[h].present)
          => /\ cacheOp'.ok
             /\ held'.code_hash = h
             /\ held'.refcount = codeStorage[h].refcount
             /\ held'.original_code_len = codeStorage[h].original_code_len
             /\ codeStorage'[h] = [held' EXCEPT !.code_hash = codeStorage[h].code_hash]
             /\ pristine' = pristine
             /\ \A other \in Hashes \ {h} : codeStorage'[other] = codeStorage[other]
             /\ codeStorage[h].schedule_version < version
                => /\ cacheOp'.reinstrumented
                   /\ held'.schedule_version = version
                   /\ held'.code = instrument(pristine[h], version)
             /\ codeStorage[h].schedule_version >= version
                => /\ ~cacheOp'.reinstrumented
                   /\ codeStorage'[h] = codeStorage[h]]_vars

\* a module stored under the oldest schedule was loaded with the newest
C31_Witness ==
    /\ cacheOp.op = "load"
    /\ cacheOp.ok
    /\ cacheOp.reinstrumented
    /\ cacheOp.sched = MaxSchedule
    /\ held.schedule_version = MaxSchedule
    /\ codeStorage[held.code_hash].schedule_version = MaxSchedule
    /\ codeStorage[held.code_hash].code = instrument(pristine[held.code_hash], MaxSchedule)
    /\ codeStorage[held.code_hash].refcount = 2

(***************************************************************************)
(* C32: memory_teardown releases a memory at most once per handle.  On a   *)
(* live handle it succeeds and empties that slot only; on a handle already *)
(* released it returns an error and changes nothing; a released handle     *)
(* stays released, and memory_get and memory_set on it return an error     *)
(* and copy nothing.                                                       *)
(***************************************************************************)
ReleasedMemories(mems) == {h \in 0 .. (Len(mems) - 1) : ~mems[h + 1].live}

C33_MemoryFailureIsFatal ==
    /\ [](run.pc = "panicked" => (run.result = NoResult /\ run.ncalls = 0))
    /\ [][\A function \in {"Call", "Constructor"}, initial \in 0 .. MaxPages,
            maximum \in 0 .. MaxPages :
             execute_memory_fails(function, initial, maximum)
             => /\ initial > maximum
                /\ run'.pc = "panicked"
                /\ run'.result = NoResult
                /\ run'.ncalls = 0
                /\ codeStorage' = codeStorage
                /\ pristine' = pristine
                /\ cacheOp' = cacheOp
                /\ ext' = ext]_vars

\* the constructor of a module that is not stored panicked in Memory::new
C33_Witness ==
    /\ run.pc = "panicked"
    /\ run.function = "Constructor"
    /\ run.code_hash \in Hashes
    /\ ~codeStorage[run.code_hash].present
    /\ ~held.present

(***************************************************************************)
(* C34: memory_get and memory_set check their ranges against the sizes     *)
(* the two memories have when the call is made: the copy is made exactly   *)
(* when both ranges lie inside the current sizes, it touches no byte       *)
(* outside them and changes no size; a range inside a memory that has      *)
(* grown is accepted.                                                      *)
(***************************************************************************)
InsideCurrentSizes(id, off, ptr, len) ==
    /\ off + len <= Len(memories[id + 1].bytes)
    /\ ptr + len <= Len(supMem)

\* the step is the copy on a live handle that lastOp' records
CopyStep ==
    /\ lastOp'.op \in {"memory_get", "memory_set"}
    /\ MemoryLookupErr(lastOp'.id) = ""
    /\ \/ memory_get(lastOp'.id, lastOp'.off, lastOp'.ptr, lastOp'.len)
       \/ memory_set(lastOp'.id, lastOp'.off, lastOp'.ptr, lastOp'.len)

C34_BoundsAgainstCurrentSizes ==
    /\ [](~fault)
    /\ [][CopyStep
          => /\ lastOp'.ok
             /\ lastOp'.val = ERR_OK
                <=> InsideCurrentSizes(lastOp'.id, lastOp'.off, lastOp'.ptr, lastOp'.len)
             /\ lastOp'.val # ERR_OK => lastOp'.val = ERR_OUT_OF_BOUNDS
             /\ Len(supMem') = Len(supMem)
             /\ Len(memories'[lastOp'.id + 1].bytes) = Len(memories[lastOp'.id + 1].bytes)
             /\ \A i \in 1 .. Len(supMem) :
                   (i <= lastOp'.ptr \/ i > lastOp'.ptr + lastOp'.len)
                   => supMem'[i] = supMem[i]
             /\ \A i \in 1 .. Len(memories[lastOp'.id + 1].bytes) :
                   (i <= lastOp'.off \/ i > lastOp'.off + lastOp'.len)
                   => memories'[lastOp'.id + 1].bytes[i]
                         = memories[lastOp'.id + 1].bytes[i]]_vars

\* after the supervisor memory grew, a copy into the bytes it gained was made
C34_Witness ==
    /\ lastOp.op = "memory_get"
    /\ lastOp.ok
    /\ lastOp.val = ERR_OK
    /\ lastOp.len > 0
    /\ lastOp.ptr + lastOp.len > SupSize
    /\ lastOp.ptr + lastOp.len = Len(supMem)

(***************************************************************************)
(* C35 as stated: require_transaction panics if and only if it is called   *)
(* outside every with_transaction.                                         *)
(***************************************************************************)
C35_PanicsIffOutsideTransaction ==
    [][\A debug_helper \in BOOLEAN :
          require_transaction(debug_helper)
          => (txOp'.outcome = "panic" <=> Len(txFrames) = 0)]_vars

(***************************************************************************)
(* C35 amended: in a build that has the debug helper, require_transaction  *)
(* panics if and only if it is called outside every with_transaction, and  *)
(* in a build without it require_transaction never panics; the             *)
(* transaction level equals the nesting depth of with_transaction and is   *)
(* back at its previous value when with_transaction returns, for Commit    *)
(* and for Rollback.                                                       *)
(***************************************************************************)
C35_PanicsIffOutsideWithHelper ==
    /\ [](TRANSACTION_LEVEL = Len(txFrames))
    /\ [][/\ \A debug_helper \in BOOLEAN :
                require_transaction(debug_helper)
                => (txOp'.outcome = "panic" <=> (debug_helper /\ Len(txFrames) = 0))
          /\ with_transaction => TRANSACTION_LEVEL' = TRANSACTION_LEVEL + 1
          /\ \A outcome \in {"Commit", "Rollback"} :
                with_transaction_return(outcome)
                => /\ TRANSACTION_LEVEL' = TRANSACTION_LEVEL - 1
                   /\ TRANSACTION_LEVEL' = Len(txFrames')]_vars

\* a nested with_transaction rolled back and the level is that of the outer one
C35_Witness ==
    /\ txOp.op = "with_transaction_return"
    /\ txOp.outcome = "Rollback"
    /\ txOp.changed
    /\ TRANSACTION_LEVEL = 1
    /\ Len(txFrames) = 1

(***************************************************************************)
(* C36: while invoke runs an export of instance h, an instance_teardown(h) *)
(* issued by the guest through the host completes without an access        *)
(* conflict on the store; the invocation in progress still returns its     *)
(* result for h; and once it has returned, h is not a valid handle.        *)
(***************************************************************************)
InvokeInProgress(h) ==
    \E i \in 1 .. Len(stack) : stack[i].kind = "invoke" /\ stack[i].inst = h

\* the invoke on top of the stack runs an instance whose handle is torn down
InvokeOfTornDown(h) ==
    /\ h \in TornDown(instances)
    /\ GuestRuns
    /\ Top.kind = "invoke"
    /\ Top.inst = h

C36_TeardownDuringInvoke ==
    /\ [](\A h \in 0 .. MaxInstances :
             InvokeOfTornDown(h)
             => ENABLED sandbox_invoke_return([kind |-> "none", enc |-> << >>]))
    /\ [][\A h \in LiveInstances(instances) :
             (instance_teardown(h) /\ InvokeInProgress(h))
             => /\ ~fault'
                /\ lastOp' = Ok("instance_teardown", h, 0)
                /\ h \in TornDown(instances')
                /\ stack' = stack]_vars
    /\ [][\A h \in 0 .. MaxInstances :
             (InvokeOfTornDown(h)
                 /\ \E outcome \in GuestOutcomes : sandbox_invoke_return(outcome))
             => /\ ~fault'
                /\ lastOp'.op = "invoke"
                /\ lastOp'.id = h
                /\ sandbox_invoke_return([kind |-> "none", enc |-> << >>])
                   => lastOp' = Ok("invoke", h, ERR_OK)
                /\ InstanceLookupErr(h)' # ""]_vars

\* an invoke returned ERR_OK for a handle that was torn down while it ran
C36_Witness ==
    /\ lastOp = Ok("invoke", lastOp.id, ERR_OK)
    /\ lastOp.id \in TornDown(instances)
    /\ stack = << >>
    /\ ~fault

(***************************************************************************)
(* C37: a memory_set that returns ERR_OK changes only the bytes            *)
(* [offset, offset + len) of the Guest Memory it names: the supervisor     *)
(* memory, every other Guest Memory and the live handles stay as they      *)
(* were.  A memory_get that returns ERR_OK changes only the supervisor     *)
(* bytes [ptr, ptr + len): every Guest Memory and the live handles stay    *)
(* as they were.                                                           *)
(***************************************************************************)
LiveMemories(mems) == {h \in 0 .. (Len(mems) - 1) : mems[h + 1].live}

C37_CopiesChangeOnlyTheirRange ==
    [][(CopyStep /\ lastOp'.val = ERR_OK)
          => /\ LiveMemories(memories') = LiveMemories(memories)
             /\ Len(memories') = Len(memories)
             /\ instances' = instances
             /\ Len(supMem') = Len(supMem)
             /\ lastOp'.op = "memory_set"
                => /\ supMem' = supMem
                   /\ \A other \in (0 .. (Len(memories) - 1)) \ {lastOp'.id} :
                         memories'[other + 1] = memories[other + 1]
                   /\ Len(memories'[lastOp'.id + 1].bytes)
                         = Len(memories[lastOp'.id + 1].bytes)
                   /\ \A i \in 1 .. Len(memories[lastOp'.id + 1].bytes) :
                         (i <= lastOp'.off \/ i > lastOp'.off + lastOp'.len)
                         => memories'[lastOp'.id + 1].bytes[i]
                               = memories[lastOp'.id + 1].bytes[i]
             /\ lastOp'.op = "memory_get"
                => /\ memories' = memories
                   /\ \A i \in 1 .. Len(supMem) :
                         (i <= lastOp'.ptr \/ i > lastOp'.ptr + lastOp'.len)
                         => supMem'[i] = supMem[i]]_vars

\* a memory_set wrote a nonzero byte into one Guest Memory while another
\* live Guest Memory holds only the zeros it was created with
C37_Witness ==
    /\ lastOp.op = "memory_set"
    /\ lastOp.val = ERR_OK
    /\ lastOp.len > 0
    /\ lastOp.id \in LiveMemories(memories)
    /\ \E k \in 1 .. Len(memories[lastOp.id + 1].bytes) :
          memories[lastOp.id + 1].bytes[k] # 0
    /\ \E other \in LiveMemories(memories) \ {lastOp.id} :
          \A k \in 1 .. Len(memories[other + 1].bytes) : memories[other + 1].bytes[k] = 0

(***************************************************************************)
(* C38: in retain_ids the debug assertion holds in every reachable state   *)
(* of the cache: a peer-id entry removed while authority A is removed      *)
(* mapped to A, so retain_ids neither panics nor removes the peer-id       *)
(* entry of an authority that is retained.                                 *)
(***************************************************************************)
C38_RetainRemovesOnlyOwnPeers ==
    [][addrOp'.op = "retain_ids"
          => /\ addrOp'.outcome = "ok"
             /\ \A q \in Peers :
                   get_authority_id_by_peer_id(q) \in addrOp'.ids
                   => get_authority_id_by_peer_id(q)' = get_authority_id_by_peer_id(q)]_vars

(***************************************************************************)
(* C39: occupied_storage returns the total, original_code_len plus the     *)
(* length of the instrumented code saturating at the largest u32, divided  *)
(* by the reference count whenever the count is at least 1, and the        *)
(* undivided total only when the count is 0; the share never exceeds       *)
(* total / refcount, for any 64-bit count.                                 *)
(***************************************************************************)
OccupiedTotal ==
    IF occ.module.original_code_len + occ.module.code_len >= U32Limit
    THEN U32Limit - 1
    ELSE occ.module.original_code_len + occ.module.code_len

C39_ShareIsTotalByRefcount ==
    occ.pc = "done" =>
        /\ occ.module.refcount >= 1 => occ.out = OccupiedTotal \div occ.module.refcount
        /\ occ.out = OccupiedTotal /\ OccupiedTotal > 0 => occ.module.refcount <= 1
        /\ occ.module.refcount = 0 => occ.out = OccupiedTotal

(***************************************************************************)
(* C40: Tally::add and Tally::remove are all-or-nothing: whenever either   *)
(* returns None, ayes, nays and turnout are what they were before the      *)
(* call.                                                                   *)
(***************************************************************************)
C40_NoneLeavesTallyUnchanged ==
    [][(tallyOp'.op \in {"add", "remove"} /\ ~tallyOp'.some) => tally' = tally]_vars

=============================================================================
